---------------------------- MODULE Spec2Model ----------------------------
(***************************************************************************)
(* Worker tier of the Long Term Archive: Picker (lta/picker.py), Locator   *)
(* (lta/locator.py) and Rucio Stager (lta/rucio_stager.py), each run by    *)
(* the work loop of the Component runtime against the LTA DB, the File     *)
(* Catalog and, for the stager, the local file system.                     *)
(*                                                                         *)
(* Text (claimant, reasons, paths) is a sequence of one-character strings, *)
(* so that formatting, splitting and matching are computed.                *)
(***************************************************************************)
EXTENDS Integers, Sequences, FiniteSets, TLC

(***************************************************************************)
(* Bounds of the model.                                                    *)
(***************************************************************************)
\* Page size of the File Catalog listing. The source sets 9000
\* (picker.py:30, locator.py:30); the model pages with a scaled limit, under
\* which a short page may hold a file.
PageLimit == 2
\* Most files the File Catalog holds for a request.
MaxFiles == 2
\* Largest file_size of a catalog record / size of a bundle archive.
MaxSize == 2
\* Largest configured MAX_FILE_COUNT (the default of the source, 25000, scaled).
MaxFileCount == 2
\* Number of TransferRequests in the LTA DB.
NumTRs == 1
\* Number of created Bundles in the LTA DB (stager).
NumBundles == 1
\* Number of work cycles the work loop is followed for.
MaxCycles == 2
\* Largest DEST_QUOTA of the stager's configuration.
MaxQuota == 3
\* Most files of a catalog whose packing is compared with the best packing
\* or whose listing takes several pages.
MaxPackFiles == 6

(***************************************************************************)
(* Text helpers.                                                           *)
(***************************************************************************)
RECURSIVE IndexFrom(_, _, _)
\* Position of the first c in s at or after position i, 0 when there is none.
IndexFrom(s, c, i) ==
    IF i > Len(s) THEN 0
    ELSE IF s[i] = c THEN i
    ELSE IndexFrom(s, c, i + 1)

\* Python's s.split(c)[0]: the part of s before the first c (all of s when
\* s holds no c).
SplitFirst(s, c) ==
    LET i == IndexFrom(s, c, 1)
    IN  IF i = 0 THEN s ELSE SubSeq(s, 1, i - 1)

RECURSIVE LastIndex(_, _, _)
\* Position of the last c in s at or before position i, 0 when there is none.
LastIndex(s, c, i) ==
    IF i = 0 THEN 0
    ELSE IF s[i] = c THEN i
    ELSE LastIndex(s, c, i - 1)

\* os.path.basename: the part of the path after its last "/".
Basename(p) == SubSeq(p, LastIndex(p, "/", Len(p)) + 1, Len(p))

Digit(d) == <<"0", "1", "2", "3", "4", "5", "6", "7", "8", "9">>[d + 1]

RECURSIVE ToStr(_)
\* Python's str(n) of a natural number, as interpolated by an f-string.
ToStr(n) == IF n < 10 THEN <<Digit(n)>> ELSE ToStr(n \div 10) \o <<Digit(n % 10)>>

\* TRUE iff t occurs in s as a contiguous run.
Contains(s, t) ==
    \E i \in 1..(Len(s) - Len(t) + 1) : SubSeq(s, i, i + Len(t) - 1) = t

(***************************************************************************)
(* Identity of the worker and the quarantine reason.                       *)
(***************************************************************************)
Roles == {"picker", "locator", "rucio_stager"}

\* The name the constructor passes to Component (the role tag).
ComponentName(r) ==
    CASE r = "picker" -> <<"p", "i", "c", "k", "e", "r">>
      [] r = "locator" -> <<"l", "o", "c", "a", "t", "o", "r">>
      [] r = "rucio_stager" ->
            <<"r", "u", "c", "i", "o", "_", "s", "t", "a", "g", "e", "r">>

\* The instance uuids a start of the worker may draw (str(uuid4())).
InstanceUuids == {<<"1", "a", "-", "7">>}

\* f"{self.name}-{self.instance_uuid}"
Claimant(name, uuid) == name \o <<"-">> \o uuid

\* f"BY:{self.name}-{self.instance_uuid} REASON:{reason}"
QuarantineReason(name, uuid, reason) ==
    <<"B", "Y", ":">> \o name \o <<"-">> \o uuid
        \o <<" ", "R", "E", "A", "S", "O", "N", ":">> \o reason

\* The texts f"{e}" of the exceptions a REST request or a file move raises;
\* an exception built without a message has the empty text.
ErrorTexts == {<< >>, <<"b", "o", "o", "m">>}

\* The text of the KeyError a missing key k raises: str(KeyError(k)).
KeyText(k) ==
    CASE k = "checksum" -> <<"c", "h", "e", "c", "k", "s", "u", "m">>
      [] k = "file_size" -> <<"f", "i", "l", "e", "_", "s", "i", "z", "e">>
      [] k = "lta" -> <<"l", "t", "a">>
      [] OTHER -> <<"k", "e", "y">>

KeyErrorText(k) == <<"'">> \o KeyText(k) \o <<"'">>

ZeroFilesReason ==
    <<"F", "i", "l", "e", " ", "C", "a", "t", "a", "l", "o", "g", " ",
      "r", "e", "t", "u", "r", "n", "e", "d", " ", "z", "e", "r", "o", " ",
      "f", "i", "l", "e", "s", " ", "f", "o", "r", " ", "t", "h", "e", " ",
      "T", "r", "a", "n", "s", "f", "e", "r", "R", "e", "q", "u", "e", "s", "t">>

\* f"Bundle packing list contains {len(spec)} files; MAX_FILE_COUNT is
\* configured at {self.max_file_count}"
PackingListReason(count, limit) ==
    <<"B", "u", "n", "d", "l", "e", " ", "p", "a", "c", "k", "i", "n", "g", " ",
      "l", "i", "s", "t", " ", "c", "o", "n", "t", "a", "i", "n", "s", " ">>
        \o ToStr(count)
        \o <<" ", "f", "i", "l", "e", "s", ";", " ", "M", "A", "X", "_",
             "F", "I", "L", "E", "_", "C", "O", "U", "N", "T", " ", "i", "s", " ",
             "c", "o", "n", "f", "i", "g", "u", "r", "e", "d", " ", "a", "t", " ">>
        \o ToStr(limit)

(***************************************************************************)
(* Picker: projection of a catalog record and bin packing.                 *)
(***************************************************************************)
\* Page size of the File Catalog listing (see PageLimit).
FILE_CATALOG_LIMIT == PageLimit

KEYS == {"checksum", "file_size", "logical_name", "meta_modify_date", "uuid"}

\* The first key of KEYS, in the order of the list, a record lacks.
FirstMissingKey(rec) ==
    LET order == <<"checksum", "file_size", "logical_name", "meta_modify_date", "uuid">>
        i == CHOOSE j \in 1..5 :
                /\ order[j] \notin DOMAIN rec
                /\ \A h \in 1..(j - 1) : order[h] \in DOMAIN rec
    IN  order[i]

\* as_bundle_record / as_lta_record: the five-key projection; it raises
\* KeyError on a record lacking one of the keys.
as_bundle_record(catalog_record) == [k \in KEYS |-> catalog_record[k]]

Projectable(rec) == KEYS \subseteq DOMAIN rec

RECURSIVE SumSeq(_)
SumSeq(s) == IF s = << >> THEN 0 ELSE Head(s) + SumSeq(Tail(s))

\* The largest of a non-empty set of numbers.
MaxOf(S) == CHOOSE x \in S : \A y \in S : y <= x
MinOf(S) == CHOOSE x \in S : \A y \in S : x <= y

RECURSIVE RevArgSortFrom(_, _)
\* binpacking's revargsort: the indices of w by decreasing weight, the sort
\* being stable (equal weights keep their order); rest is the set of
\* indices still to place.
RevArgSortFrom(w, rest) ==
    IF rest = {} THEN << >>
    ELSE LET top == MaxOf({w[i] : i \in rest})
             i == MinOf({j \in rest : w[j] = top})
         IN  <<i>> \o RevArgSortFrom(w, rest \ {i})

RevArgSort(w) == RevArgSortFrom(w, DOMAIN w)

\* A faulty choice of the bin that asks whether a bin has room left, not
\* whether the weight fits in it.
ChooseBinWithRoom(weight_sum, weight, V_max, item) ==
    LET candidate_bins == {b \in DOMAIN weight_sum : weight_sum[b] < V_max}
    IN  IF candidate_bins /= {}
        THEN LET fullest == MaxOf({weight_sum[b] : b \in candidate_bins})
             IN  MinOf({b \in candidate_bins : weight_sum[b] = fullest})
        ELSE IF item > 1 THEN Len(weight_sum) + 1
        ELSE 1

\* A faulty choice of the bin that opens a bin for every weight.
ChooseBinAlwaysNew(weight_sum, weight, V_max, item) ==
    IF item > 1 THEN Len(weight_sum) + 1 ELSE 1

\* The bin the weight goes to, given the sums of the open bins: the fullest
\* bin it fits in (the first of them), else a new bin, except that the very
\* first item uses the bin that is open from the start.
ChooseBin(weight_sum, weight, V_max, item) ==
    LET candidate_bins == {b \in DOMAIN weight_sum : weight_sum[b] + weight <= V_max}
    IN  IF candidate_bins /= {}
        THEN LET fullest == MaxOf({weight_sum[b] : b \in candidate_bins})
             IN  MinOf({b \in candidate_bins : weight_sum[b] = fullest})
        ELSE IF item > 1 THEN Len(weight_sum) + 1
        ELSE 1

RECURSIVE PackFrom(_, _, _, _, _, _)
\* The loop of to_constant_volume over the sorted items, item being the
\* position in the sorted order.
PackFrom(order, w, V_max, item, bins, weight_sum) ==
    IF item > Len(order) THEN bins
    ELSE LET key == order[item]
             b == ChooseBin(weight_sum, w[key], V_max, item)
             bins1 == IF b > Len(bins) THEN Append(bins, << >>) ELSE bins
             sum1 == IF b > Len(weight_sum) THEN Append(weight_sum, 0) ELSE weight_sum
         IN  PackFrom(order, w, V_max, item + 1,
                      [bins1 EXCEPT ![b] = Append(@, key)],
                      [sum1 EXCEPT ![b] = @ + w[key]])

\* binpacking.to_constant_volume(packing_list, bundle_size, 0) as called by
\* the Picker: w is the sequence of weights (position 0 of each tuple); the
\* result is the list of bins, each the list of the positions of its tuples
\* in packing_list.
to_constant_volume(w, V_max) == PackFrom(RevArgSort(w), w, V_max, 1, << << >> >>, <<0>>)

(***************************************************************************)
(* Locator: the bundle uuids of the archives holding the records.          *)
(***************************************************************************)
RECURSIVE Flatten(_)
Flatten(ss) == IF ss = << >> THEN << >> ELSE Head(ss) \o Flatten(Tail(ss))

\* A faulty first loop that takes any archive value but False for true.
BundlePathsTruthy(records, source) ==
    Flatten([i \in DOMAIN records |->
        LET locs == records[i]["locations"]
            keep == SelectSeq(locs, LAMBDA location :
                        /\ "archive" \in DOMAIN location
                        /\ location["archive"] /= "False"
                        /\ location["site"] = source)
        IN  [j \in DOMAIN keep |-> keep[j]["path"]]])

\* The first loop of _get_unique_archives: the paths of the locations that
\* have an archive key whose value is True and whose site is the source.
BundlePaths(records, source) ==
    Flatten([i \in DOMAIN records |->
        LET locs == records[i]["locations"]
            keep == SelectSeq(locs, LAMBDA location :
                        /\ "archive" \in DOMAIN location
                        /\ location["archive"] = "True"
                        /\ location["site"] = source)
        IN  [j \in DOMAIN keep |-> keep[j]["path"]]])

\* os.path.basename(bundle_path.split(":")[0]).split(".")[0]
BundleUuidOf(bundle_path) == SplitFirst(Basename(SplitFirst(bundle_path, ":")), ".")

\* A faulty second loop that appends every uuid, seen before or not.
UniqueFromKeepAll(paths, bundle_uuids) ==
    bundle_uuids \o [i \in DOMAIN paths |-> BundleUuidOf(paths[i])]

RECURSIVE UniqueFrom(_, _)
\* The second loop: the uuids in first-seen order, each once.
UniqueFrom(paths, bundle_uuids) ==
    IF paths = << >> THEN bundle_uuids
    ELSE LET uuid == BundleUuidOf(Head(paths))
         IN  UniqueFrom(Tail(paths),
                        IF \E i \in DOMAIN bundle_uuids : bundle_uuids[i] = uuid
                        THEN bundle_uuids
                        ELSE Append(bundle_uuids, uuid))

_get_unique_archives(records, source) == UniqueFrom(BundlePaths(records, source), << >>)

(***************************************************************************)
(* State.                                                                  *)
(***************************************************************************)
VARIABLES
    \* configuration and identity, fixed by the constructor
    role,                       \* which component this worker is
    instance_uuid,              \* Component.instance_uuid
    run_once_and_die,           \* Component.run_once_and_die
    max_file_count,             \* Picker.max_file_count
    dest_quota,                 \* RucioStager.dest_quota
    \* the collaborators
    catalog,                    \* File Catalog: the records matching the query
    tr,                         \* LTA DB: the TransferRequests
    created,                    \* LTA DB: the Bundles made by bulk_create
    bundle,                     \* LTA DB: the Bundles the stager pops
    files,                      \* file system: path -> size of each file
    status,                     \* LTA DB: the status document of this worker
    parked,                     \* the state of a second instance, while this one runs
    \* the work loop (Component)
    pc,                         \* the request the work loop is suspended at
    cycle,                      \* number of work cycles begun; the clock
    last_work_begin_timestamp,
    last_work_end_timestamp,
    work_result,                \* how the last _do_work ended
    \* _do_work and _do_work_claim
    claims,                     \* _do_work_claim calls of this _do_work
    claim_result,               \* how the last _do_work_claim ended
    cur,                        \* the entity pop handed out (0: none)
    page_start,
    catalog_files,
    catalog_records,
    plan,                       \* packing_spec (Picker), bundle_uuids (Locator)
    bundle_records,             \* Locator: the fetched bundle records
    emitted,                    \* bulk_create calls answered in this claim
    qreason,                    \* the reason handed to the quarantine
    qafter,                     \* what follows the quarantine
    moved,                      \* stager: a file was moved in this claim
    reqs                        \* the requests of this _do_work_claim, in order

\* what no step of the work loop writes: the configuration, the status
\* document, which only the heartbeat loop publishes, and the state of the
\* other instance
cfgVars == <<role, instance_uuid, run_once_and_die, max_file_count, dest_quota, status,
             parked>>
envVars == <<catalog, tr, created, bundle, files>>
loopVars == <<cycle, last_work_begin_timestamp>>
ctlVars == <<pc, claims, claim_result, work_result, last_work_end_timestamp>>
locVars == <<cur, page_start, catalog_files, catalog_records, plan, bundle_records,
             emitted, moved>>
qVars == <<qreason, qafter>>
vars == <<cfgVars, envVars, loopVars, ctlVars, locVars, qVars, reqs>>

(***************************************************************************)
(* The collaborators' data.                                                *)
(***************************************************************************)
SOURCE_SITE == "WIPAC"
Sites == {"NERSC", "DESY"}

\* The destination site of the end-to-end scenario of the Picker, whose
\* bundle_size is 1000.
ScenarioSite == "S1-DEST"

\* The destination site of the packing study, whose bundle_size is 7, and
\* the file sizes of its catalogs.
PackingSite == "PACK-DEST"
PackSizes == {2, 3}

\* LTA_SITE_CONFIG: the bundle_size of each destination site.
bundle_size_of(site) ==
    CASE site = "NERSC" -> MaxSize - 1
      [] site = ScenarioSite -> 1000
      [] site = PackingSite -> 7
      [] OTHER -> MaxSize

DEST_SITE == "NERSC"

\* The catalog record of file i, without the keys in drop.
CatalogRecord(i, size, locations, drop) ==
    LET full == [uuid |-> i,
                 file_size |-> size,
                 checksum |-> [sha512 |-> i],
                 logical_name |-> <<"/", "d", "/", Digit(i)>>,
                 meta_modify_date |-> 0,
                 locations |-> locations]
    IN  [k \in (DOMAIN full) \ drop |-> full[k]]

\* The record shapes of an outbound catalog: well-formed records of every
\* size, and records lacking a projected key.
WellFormedShapes == {[size |-> n, drop |-> {}] : n \in 0..MaxSize}

MalformedShapes == {[size |-> 1, drop |-> {"checksum"}], [size |-> 1, drop |-> {"file_size"}]}

Location(archive, site, path) == [archive |-> archive, site |-> site, path |-> path]

ArchiveD1a == Location("True", SOURCE_SITE,
                       <<"/", "a", "/", "D", "1", ".", "z", "i", "p", ":", "i", "1">>)
ArchiveD1b == Location("True", SOURCE_SITE,
                       <<"/", "a", "/", "D", "1", ".", "z", "i", "p", ":", "i", ":", "2">>)
ArchiveC2 == Location("True", SOURCE_SITE,
                      <<"/", "b", ".", "c", "/", "C", "2", ".", "t", ".", "z", ":", "i", "3">>)
Warehouse == [site |-> SOURCE_SITE, path |-> <<"/", "d", "/", "f">>]
ArchiveYes == Location("yes", SOURCE_SITE,
                       <<"/", "a", "/", "E", "3", ".", "z", "i", "p", ":", "i", "4">>)
ArchiveElsewhere == Location("True", "NERSC",
                             <<"/", "a", "/", "F", "4", ".", "z", "i", "p", ":", "i", "5">>)

\* The locations lists of the records of an inbound catalog.
LocatorShapes ==
    { <<Warehouse, ArchiveD1b>>, <<ArchiveC2, ArchiveD1a>>,
      <<ArchiveYes, ArchiveElsewhere>>, <<ArchiveD1a, ArchiveD1a>> }

SeqsUpTo(S, n) == UNION {[1..m -> S] : m \in 0..n}

\* The outbound catalogs: well-formed records, the last one possibly
\* malformed.
PickerCatalogs ==
    {[i \in DOMAIN sh |-> CatalogRecord(i, sh[i].size, << >>, sh[i].drop)] :
        sh \in SeqsUpTo(WellFormedShapes, MaxFiles)
                 \cup {Append(w, m) : w \in SeqsUpTo(WellFormedShapes, MaxFiles - 1),
                                      m \in MalformedShapes}}

LocatorCatalogs ==
    {[i \in DOMAIN sh |-> CatalogRecord(i, 1, sh[i], {})] :
        sh \in SeqsUpTo(LocatorShapes, MaxFiles)}

\* What the File Catalog may answer to GET /api/files/<bundle_uuid>: the
\* record of the archive, with or without its lta sub-object.
BundleRecordAnswers(uuid) ==
    LET full == [uuid |-> uuid,
                 file_size |-> 1,
                 checksum |-> [sha512 |-> uuid],
                 logical_name |-> <<"/", "h">> \o uuid,
                 meta_modify_date |-> 0,
                 lta |-> [bundle_path |-> <<"/", "o", "/">> \o uuid,
                          checksum |-> [sha512 |-> uuid]]]
    IN  {full, [k \in (DOMAIN full) \ {"lta"} |-> full[k]]}

BUNDLER_OUTBOX_PATH == <<"/", "o">>
RUCIO_INBOX_PATH == <<"/", "r">>

\* os.path.join(directory, name)
PathJoin(directory, name) == directory \o <<"/">> \o name

\* The name of the archive file of Bundle b.
BundleName(b) == <<"b", Digit(b), ".", "z">>

\* now(): the clock of the model is the number of the work cycle.
now == cycle

(***************************************************************************)
(* The state after construction.                                           *)
(***************************************************************************)
\* A TransferRequest nobody has claimed yet.
NewTR(dest) ==
    [source |-> SOURCE_SITE, dest |-> dest, path |-> <<"/", "d">>,
     status |-> "ethereal", claimed |-> FALSE, claimant |-> << >>,
     reason |-> << >>, work_priority_timestamp |-> 0]

\* The status document the LTA DB holds before the first heartbeat: none.
NoStatus == [timestamp |-> -1,
             last_work_begin_timestamp |-> -1,
             last_work_end_timestamp |-> -1]

\* The state of a worker instance after construction.
Fresh(uuid) ==
    [instance_uuid |-> uuid,
     pc |-> "sleep",
     cycle |-> 0,
     last_work_begin_timestamp |-> 0,
     last_work_end_timestamp |-> 0,
     work_result |-> "none",
     claims |-> 0,
     claim_result |-> "none",
     cur |-> 0,
     page_start |-> 0,
     catalog_files |-> << >>,
     catalog_records |-> << >>,
     plan |-> << >>,
     bundle_records |-> << >>,
     emitted |-> 0,
     qreason |-> << >>,
     qafter |-> "none",
     moved |-> FALSE,
     reqs |-> << >>]

\* No second instance runs.
Nobody == Fresh(<< >>)

InitWorker ==
    /\ status = NoStatus
    /\ parked = Nobody
    /\ pc = "sleep"
    /\ cycle = 0
    /\ last_work_begin_timestamp = 0
    /\ last_work_end_timestamp = 0
    /\ work_result = "none"
    /\ claims = 0
    /\ claim_result = "none"
    /\ cur = 0
    /\ page_start = 0
    /\ catalog_files = << >>
    /\ catalog_records = << >>
    /\ plan = << >>
    /\ bundle_records = << >>
    /\ emitted = 0
    /\ qreason = << >>
    /\ qafter = "none"
    /\ moved = FALSE
    /\ reqs = << >>

InitPicker ==
    /\ role = "picker"
    /\ max_file_count \in {1, MaxFileCount}
    /\ dest_quota = 0
    /\ catalog \in PickerCatalogs
    /\ \E dest \in Sites : tr = [i \in 1..NumTRs |-> NewTR(dest)]
    /\ created = << >>
    /\ bundle = << >>
    /\ files = << >>

InitLocator ==
    /\ role = "locator"
    /\ max_file_count = 0
    /\ dest_quota = 0
    /\ catalog \in LocatorCatalogs
    /\ tr = [i \in 1..NumTRs |-> NewTR(DEST_SITE)]
    /\ created = << >>
    /\ bundle = << >>
    /\ files = << >>

(***************************************************************************)
(* The work loop and the drain loop.                                       *)
(***************************************************************************)
\* One entry of the log of requests: the method, the route, the entity or
\* file the route names (0: none), the body or the query, and whether the
\* request was answered (TRUE) or raised (FALSE).
Req(op, url, id, body, ok) == [op |-> op, url |-> url, id |-> id, body |-> body, ok |-> ok]

\* The locals of a new _do_work_claim, entity being what pop handed out.
ResetLocalsBut(entity) ==
    /\ cur' = entity
    /\ page_start' = 0
    /\ catalog_files' = << >>
    /\ catalog_records' = << >>
    /\ plan' = << >>
    /\ bundle_records' = << >>
    /\ emitted' = 0
    /\ moved' = FALSE
    /\ qreason' = << >>
    /\ qafter' = "none"

ResetLocals == ResetLocalsBut(0)

\* The worker goes on to its next request within the same _do_work_claim.
Goto(p) ==
    /\ pc' = p
    /\ UNCHANGED <<claims, claim_result, work_result, last_work_end_timestamp>>

\* A faulty run that lets an exception of _do_work end the worker.
RunEndsDying(how) ==
    /\ work_result' = how
    /\ IF how = "raised"
       THEN pc' = "dead" /\ UNCHANGED last_work_end_timestamp
       ELSE pc' = "sleep" /\ last_work_end_timestamp' = now

\* Component.run after _do_work: the work cycle stopwatch is stopped,
\* whether _do_work returned or raised, and work_loop sleeps.
RunEnds(how) ==
    /\ work_result' = how
    /\ last_work_end_timestamp' = now
    /\ pc' = "sleep"

\* work_loop wakes up and Component.run starts a work cycle: the stopwatch
\* is started and _do_work makes its first _do_work_claim.
WorkLoopRun ==
    /\ pc = "sleep"
    /\ cycle < MaxCycles
    /\ cycle' = cycle + 1
    /\ last_work_begin_timestamp' = cycle + 1
    /\ pc' = "pop"
    /\ claims' = 1
    /\ claim_result' = "none"
    /\ work_result' = "running"
    /\ reqs' = << >>
    /\ ResetLocals
    /\ UNCHANGED <<cfgVars, envVars, last_work_end_timestamp>>

\* A faulty drain loop that forgets run_once_and_die.
ClaimReturnsForgetful(result) ==
    /\ claim_result' = IF result THEN "True" ELSE "False"
    /\ IF result
       THEN /\ pc' = "pop"
            /\ claims' = claims + 1
            /\ UNCHANGED <<work_result, last_work_end_timestamp>>
       ELSE /\ claims' = claims
            /\ RunEnds("returned")

\* _do_work_claim returned result to the loop of _do_work:
\*     work_claimed = await self._do_work_claim()
\*     work_claimed &= not self.run_once_and_die
ClaimReturns(result) ==
    /\ claim_result' = IF result THEN "True" ELSE "False"
    /\ IF result /\ ~run_once_and_die
       THEN /\ pc' = "pop"
            /\ claims' = claims + 1
            /\ UNCHANGED <<work_result, last_work_end_timestamp>>
       ELSE /\ claims' = claims
            /\ RunEnds("returned")

\* _do_work_claim raised: _do_work has no handler, the exception reaches
\* Component.run.
ClaimRaises ==
    /\ claim_result' = "raised"
    /\ claims' = claims
    /\ RunEnds("raised")

\* The quarantine primitive is about to issue its PATCH.
GoQuarantine(reason, after) ==
    /\ Goto("quarantine")
    /\ qreason' = reason
    /\ qafter' = after

\* A faulty caller of the quarantine primitive that does not return after
\* it: the Picker goes on to its emission loop.
AfterQuarantineFallsThrough ==
    CASE qafter = "return_true" /\ role = "picker" /\ plan /= << >> -> Goto("emit")
      [] qafter = "return_true" /\ ~(role = "picker" /\ plan /= << >>) -> ClaimReturns(TRUE)
      [] qafter = "return_false" -> ClaimReturns(FALSE)
      [] OTHER -> ClaimRaises

\* What follows the quarantine primitive, which returns normally.
AfterQuarantine ==
    CASE qafter = "return_true" -> ClaimReturns(TRUE)
      [] qafter = "return_false" -> ClaimReturns(FALSE)
      [] OTHER -> ClaimRaises

(***************************************************************************)
(* The LTA DB as the workers see it.                                       *)
(***************************************************************************)
\* A faulty pop that hands out a TransferRequest another instance holds.
PoppableTRsUnguarded == {i \in DOMAIN tr : tr[i].status = "ethereal"}

\* The TransferRequests pop may hand out.
PoppableTRs == {i \in DOMAIN tr : ~tr[i].claimed /\ tr[i].status = "ethereal"}

\* The TransferRequest object of a pop response.
TRObject(i) == [uuid |-> i, source |-> tr[i].source, dest |-> tr[i].dest, path |-> tr[i].path]

\* PATCH /TransferRequests/<uuid>: the keys of the body replace the entity's.
PatchTR(i, body) ==
    tr' = [tr EXCEPT ![i] = [k \in DOMAIN @ |-> IF k \in DOMAIN body THEN body[k] ELSE @[k]]]

(***************************************************************************)
(* Claiming a TransferRequest (Picker and Locator).                        *)
(***************************************************************************)
PopBody == [claimant |-> Claimant(ComponentName(role), instance_uuid)]

\* A faulty pop that takes an error for the answer that there is no work.
PopRaisesSwallowed(url) ==
    /\ reqs' = <<Req("POST", url, 0, [claimant |-> Claimant(ComponentName(role), instance_uuid)],
                     FALSE)>>
    /\ ResetLocals
    /\ ClaimReturns(FALSE)
    /\ UNCHANGED envVars

\* The pop request raises (the client's retries are exhausted): nothing
\* catches it in _do_work_claim.
PopRaises(url) ==
    /\ reqs' = <<Req("POST", url, 0, PopBody, FALSE)>>
    /\ ResetLocals
    /\ ClaimRaises
    /\ UNCHANGED envVars

\* The LTA DB has no work: _do_work_claim returns False.
PopIdle(url) ==
    /\ reqs' = <<Req("POST", url, 0, PopBody, TRUE)>>
    /\ ResetLocals
    /\ ClaimReturns(FALSE)
    /\ UNCHANGED envVars

\* The LTA DB hands out TransferRequest i, claimed for this worker, and
\* _do_work_transfer_request comes to its first File Catalog request.
PopClaimsTRForgetful(url, i) ==
    /\ reqs' = <<Req("POST", url, 0, PopBody, TRUE)>>
    /\ ResetLocalsBut(i)
    /\ Goto("list")
    /\ UNCHANGED <<tr, catalog, created, bundle, files>>

PopClaimsTR(url, i) ==
    /\ tr' = [tr EXCEPT ![i].claimed = TRUE, ![i].claimant = PopBody.claimant]
    /\ reqs' = <<Req("POST", url, 0, PopBody, TRUE)>>
    /\ ResetLocalsBut(i)
    /\ Goto("list")
    /\ UNCHANGED <<catalog, created, bundle, files>>

\* The pop request and its outcomes. The TransferRequests of the model
\* differ in their uuid only, so that which of the poppable ones the LTA DB
\* hands out makes no difference: it is the one of lowest uuid.
PopTR(url) ==
    \/ PopRaises(url)
    \/ PoppableTRs = {} /\ PopIdle(url)
    \/ PoppableTRs /= {} /\ PopClaimsTR(url, MinOf(PoppableTRs))

(***************************************************************************)
(* File discovery and record fetch (Picker and Locator).                   *)
(***************************************************************************)
\* The File Catalog's answer to a listing: the uuids of the matching files
\* from offset start, limit of them at most.
FCList(start, limit) ==
    LET last == IF start + limit < Len(catalog) THEN start + limit ELSE Len(catalog)
    IN  [j \in 1..(IF last > start THEN last - start ELSE 0) |-> catalog[start + j]["uuid"]]

\* A faulty end of the discovery that lets a TransferRequest without files
\* go without a quarantine.
AfterListingSilent(all_files) ==
    IF all_files = << >>
    THEN ClaimReturns(TRUE) /\ UNCHANGED qVars
    ELSE Goto("fetch") /\ UNCHANGED qVars

\* A faulty end of the paging loop whose zero-files quarantine ends the
\* drain as an exception does.
AfterListingStopping(all_files) ==
    IF all_files = << >>
    THEN GoQuarantine(ZeroFilesReason, "return_false")
    ELSE Goto("fetch") /\ UNCHANGED qVars

\* What follows the paging loop: zero files are a quarantine from within
\* _do_work_transfer_request, which then returns.
AfterListing(all_files) ==
    IF all_files = << >>
    THEN GoQuarantine(ZeroFilesReason, "return_true")
    ELSE Goto("fetch") /\ UNCHANGED qVars

\* A faulty paging loop that goes on until a page comes back empty.
ListedUntilEmpty(page) ==
    /\ catalog_files' = catalog_files \o page
    /\ IF Len(page) > 0
       THEN Goto("page") /\ UNCHANGED qVars
       ELSE AfterListing(catalog_files \o page)

\* A listing answered with page: the page is collected; a full page sends
\* the loop round again.
Listed(page) ==
    /\ catalog_files' = catalog_files \o page
    /\ IF Len(page) = FILE_CATALOG_LIMIT
       THEN Goto("page") /\ UNCHANGED qVars
       ELSE AfterListing(catalog_files \o page)

\* A faulty handler that raises again after the quarantine.
PickerExceptRaising(e) == GoQuarantine(e, "raise")

\* The handler of _do_work_claim: the error text goes to the quarantine and
\* _do_work_claim then returns False.
PickerExcept(e) == GoQuarantine(e, "return_false")

\* A faulty handler that returns False after the quarantine.
LocatorExceptReturning(e) == GoQuarantine(e, "return_false")

\* The handler of _do_work_claim: the error text goes to the quarantine and
\* the exception is raised again.
LocatorExcept(e) == GoQuarantine(e, "raise")

\* The handler of the component at work.
TRExcept(e) == IF role = "picker" THEN PickerExcept(e) ELSE LocatorExcept(e)

\* query_dict: the Picker asks for the files at the source under the path,
\* the Locator for the archived files at the source under the path.
QueryDict(t) ==
    IF role = "picker"
    THEN ("locations.site" :> [eq |-> t["source"]])
            @@ ("locations.path" :> [regex |-> <<"^">> \o t["path"]])
            @@ ("logical_name" :> [regex |-> <<"^">> \o t["path"]])
    ELSE ("locations.archive" :> [eq |-> "True"])
            @@ ("locations.site" :> [eq |-> t["source"]])
            @@ ("logical_name" :> [regex |-> <<"^">> \o t["path"]])

\* A faulty round of the paging loop that starts one file too early.
ListNextOverlapping ==
    /\ pc = "page"
    /\ page_start' = page_start + FILE_CATALOG_LIMIT - 1
    /\ LET query == [query |-> QueryDict(TRObject(cur)),
                     limit |-> FILE_CATALOG_LIMIT, start |-> page_start']
       IN  \/ /\ reqs' = Append(reqs, Req("GET", "/api/files", 0, query, TRUE))
              /\ Listed(FCList(page_start', FILE_CATALOG_LIMIT))
           \/ \E e \in ErrorTexts :
                 /\ reqs' = Append(reqs, Req("GET", "/api/files", 0, query, FALSE))
                 /\ TRExcept(e)
                 /\ UNCHANGED catalog_files
    /\ UNCHANGED <<cfgVars, envVars, loopVars, cur, catalog_records, plan,
                   bundle_records, emitted, moved>>

\* A faulty round of the paging loop that goes on asking for keys=uuid.
ListNextWithKeys ==
    /\ pc = "page"
    /\ page_start' = page_start + FILE_CATALOG_LIMIT
    /\ LET query == [query |-> QueryDict(TRObject(cur)), keys |-> "uuid",
                     limit |-> FILE_CATALOG_LIMIT, start |-> page_start']
       IN  \/ /\ reqs' = Append(reqs, Req("GET", "/api/files", 0, query, TRUE))
              /\ Listed(FCList(page_start', FILE_CATALOG_LIMIT))
           \/ \E e \in ErrorTexts :
                 /\ reqs' = Append(reqs, Req("GET", "/api/files", 0, query, FALSE))
                 /\ TRExcept(e)
                 /\ UNCHANGED catalog_files
    /\ UNCHANGED <<cfgVars, envVars, loopVars, cur, catalog_records, plan,
                   bundle_records, emitted, moved>>

\* The first listing request: keys=uuid, start=0.
ListFirst ==
    /\ pc = "list"
    /\ LET query == [query |-> QueryDict(TRObject(cur)), keys |-> "uuid",
                     limit |-> FILE_CATALOG_LIMIT, start |-> page_start]
       IN  \/ /\ reqs' = Append(reqs, Req("GET", "/api/files", 0, query, TRUE))
              /\ Listed(FCList(page_start, FILE_CATALOG_LIMIT))
           \/ \E e \in ErrorTexts :
                 /\ reqs' = Append(reqs, Req("GET", "/api/files", 0, query, FALSE))
                 /\ TRExcept(e)
                 /\ UNCHANGED catalog_files
    /\ UNCHANGED <<cfgVars, envVars, loopVars, cur, page_start, catalog_records, plan,
                   bundle_records, emitted, moved>>

\* A round of the paging loop (num_files = FILE_CATALOG_LIMIT holds in it):
\* page_start += num_files, and the listing is requested without keys.
ListNext ==
    /\ pc = "page"
    /\ page_start' = page_start + FILE_CATALOG_LIMIT
    /\ LET query == [query |-> QueryDict(TRObject(cur)),
                     limit |-> FILE_CATALOG_LIMIT, start |-> page_start']
       IN  \/ /\ reqs' = Append(reqs, Req("GET", "/api/files", 0, query, TRUE))
              /\ Listed(FCList(page_start', FILE_CATALOG_LIMIT))
           \/ \E e \in ErrorTexts :
                 /\ reqs' = Append(reqs, Req("GET", "/api/files", 0, query, FALSE))
                 /\ TRExcept(e)
                 /\ UNCHANGED catalog_files
    /\ UNCHANGED <<cfgVars, envVars, loopVars, cur, catalog_records, plan,
                   bundle_records, emitted, moved>>

\* A faulty count check that lets a bin of max_file_count + 1 records pass.
FirstOverfullLax(packing_spec) ==
    LET over == {b \in DOMAIN packing_spec : Len(packing_spec[b]) > max_file_count + 1}
    IN  IF over = {} THEN 0 ELSE MinOf(over)

\* The first bin holding more than max_file_count records, 0 when none does.
FirstOverfull(packing_spec) ==
    LET over == {b \in DOMAIN packing_spec : Len(packing_spec[b]) > max_file_count}
    IN  IF over = {} THEN 0 ELSE MinOf(over)

\* A faulty packing step that leaves the check of the file counts to the
\* emission loop, which it never makes.
PickerPackUngated(records) ==
    IF \E i \in DOMAIN records : "file_size" \notin DOMAIN records[i]
    THEN PickerExcept(KeyErrorText("file_size")) /\ plan' = << >>
    ELSE LET packing_list == [i \in DOMAIN records |-> records[i]["file_size"]]
             bundle_size == bundle_size_of(TRObject(cur)["dest"])
         IN  /\ plan' = to_constant_volume(packing_list, bundle_size)
             /\ Goto("emit")
             /\ UNCHANGED qVars

\* The packing list, the packing and the check of the file counts, which
\* follow the last record fetch without a request in between.
PickerPack(records) ==
    IF \E i \in DOMAIN records : "file_size" \notin DOMAIN records[i]
    THEN PickerExcept(KeyErrorText("file_size")) /\ plan' = << >>
    ELSE LET packing_list == [i \in DOMAIN records |-> records[i]["file_size"]]
             bundle_size == bundle_size_of(TRObject(cur)["dest"])
             packing_spec == to_constant_volume(packing_list, bundle_size)
             over == FirstOverfull(packing_spec)
         IN  /\ plan' = packing_spec
             /\ IF over /= 0
                THEN GoQuarantine(PackingListReason(Len(packing_spec[over]), max_file_count),
                                  "return_true")
                ELSE Goto("emit") /\ UNCHANGED qVars

\* A faulty Locator that sends the TransferRequest to quarantine when no
\* record names an archive, as it does when the File Catalog has no files.
LocatorUniqueStrict(records) ==
    LET bundle_uuids == _get_unique_archives(records, TRObject(cur)["source"])
    IN  /\ plan' = bundle_uuids
        /\ IF bundle_uuids = << >>
           THEN GoQuarantine(ZeroFilesReason, "return_true")
           ELSE Goto("fetch_bundle") /\ UNCHANGED qVars

\* The bundle uuids are derived once the last record arrived; with none,
\* both loops that follow are empty and _do_work_claim returns True.
LocatorUnique(records) ==
    LET bundle_uuids == _get_unique_archives(records, TRObject(cur)["source"])
    IN  /\ plan' = bundle_uuids
        /\ UNCHANGED qVars
        /\ IF bundle_uuids = << >> THEN ClaimReturns(TRUE) ELSE Goto("fetch_bundle")

\* What the component does with the records once the last one arrived.
AfterFetch(records) ==
    IF role = "picker" THEN PickerPack(records) ELSE LocatorUnique(records)

\* GET /api/files/<uuid> for the next of catalog_files.
FetchRecord ==
    /\ pc = "fetch"
    /\ LET uuid == catalog_files[Len(catalog_records) + 1]
       IN  \/ \E e \in ErrorTexts :
                 /\ reqs' = Append(reqs, Req("GET", "/api/files/<uuid>", uuid, << >>, FALSE))
                 /\ TRExcept(e)
                 /\ UNCHANGED <<catalog_records, plan>>
           \/ /\ reqs' = Append(reqs, Req("GET", "/api/files/<uuid>", uuid, << >>, TRUE))
              /\ catalog_records' = Append(catalog_records, catalog[uuid])
              /\ IF Len(catalog_records) + 1 < Len(catalog_files)
                 THEN Goto("fetch") /\ UNCHANGED <<qVars, plan>>
                 ELSE AfterFetch(Append(catalog_records, catalog[uuid]))
    /\ UNCHANGED <<cfgVars, envVars, loopVars, cur, page_start, catalog_files,
                   bundle_records, emitted, moved>>

(***************************************************************************)
(* Picker.                                                                 *)
(***************************************************************************)
PickerPopUrl == "/TransferRequests/actions/pop?source"

PickerPop ==
    /\ role = "picker"
    /\ pc = "pop"
    /\ PopTR(PickerPopUrl)
    /\ UNCHANGED <<cfgVars, loopVars>>

PickerList == role = "picker" /\ ListFirst

PickerPage == role = "picker" /\ ListNext

PickerFetch == role = "picker" /\ FetchRecord

\* A faulty bundle builder that repeats the first record of the bin.
PickerBundleFirstOnly(i, spec) ==
    [type |-> "Bundle",
     status |-> "specified",
     reason |-> << >>,
     request |-> TRObject(i)["uuid"],
     source |-> TRObject(i)["source"],
     dest |-> TRObject(i)["dest"],
     path |-> TRObject(i)["path"],
     files |-> [j \in DOMAIN spec |-> as_bundle_record(catalog_records[spec[1]])]]

\* A faulty bundle builder that takes the destination for the source and
\* the source for the destination.
PickerBundleSwapped(i, spec) ==
    [type |-> "Bundle",
     status |-> "specified",
     reason |-> << >>,
     request |-> TRObject(i)["uuid"],
     source |-> TRObject(i)["dest"],
     dest |-> TRObject(i)["source"],
     path |-> TRObject(i)["path"],
     files |-> [j \in DOMAIN spec |-> as_bundle_record(catalog_records[spec[j]])]]

\* A faulty bundle builder whose order of the files depends on the work
\* cycle it runs in.
PickerBundleByCycle(i, spec) ==
    [type |-> "Bundle",
     status |-> "specified",
     reason |-> << >>,
     request |-> TRObject(i)["uuid"],
     source |-> TRObject(i)["source"],
     dest |-> TRObject(i)["dest"],
     path |-> TRObject(i)["path"],
     files |-> [j \in DOMAIN spec |->
                   as_bundle_record(catalog_records[
                       spec[IF cycle % 2 = 0 THEN Len(spec) + 1 - j ELSE j]])]]

\* The Bundle the Picker creates for the bin spec of TransferRequest i.
PickerBundle(i, spec) ==
    [type |-> "Bundle",
     status |-> "specified",
     reason |-> << >>,
     request |-> TRObject(i)["uuid"],
     source |-> TRObject(i)["source"],
     dest |-> TRObject(i)["dest"],
     path |-> TRObject(i)["path"],
     files |-> [j \in DOMAIN spec |-> as_bundle_record(catalog_records[spec[j]])]]

\* A faulty emission loop that undoes the bundles already created when a
\* later one fails, as a transaction would.
PickerEmitRollingBack ==
    /\ role = "picker"
    /\ pc = "emit"
    /\ LET spec == plan[emitted + 1]
           bad == {j \in DOMAIN spec : ~Projectable(catalog_records[spec[j]])}
           kept == SubSeq(created, 1, Len(created) - emitted)
       IN  IF bad /= {}
           THEN /\ PickerExcept(KeyErrorText(FirstMissingKey(catalog_records[spec[MinOf(bad)]])))
                /\ created' = kept
                /\ UNCHANGED <<reqs, emitted>>
           ELSE LET body == [bundles |-> <<PickerBundle(cur, spec)>>]
                IN  \/ /\ reqs' = Append(reqs, Req("POST", "/Bundles/actions/bulk_create",
                                                   0, body, TRUE))
                       /\ created' = Append(created, body.bundles[1])
                       /\ emitted' = emitted + 1
                       /\ IF emitted + 1 < Len(plan)
                          THEN Goto("emit")
                          ELSE ClaimReturns(TRUE)
                       /\ UNCHANGED qVars
                    \/ \E e \in ErrorTexts :
                          /\ reqs' = Append(reqs, Req("POST", "/Bundles/actions/bulk_create",
                                                      0, body, FALSE))
                          /\ PickerExcept(e)
                          /\ created' = kept
                          /\ UNCHANGED emitted
    /\ UNCHANGED <<cfgVars, loopVars, catalog, tr, bundle, files, cur, page_start,
                   catalog_files, catalog_records, plan, bundle_records, moved>>

\* One round of the emission loop: the bundle of the next bin is built and
\* POSTed to bulk_create. Building it raises KeyError when a record of the
\* bin lacks a projected key, and then no request is made.
PickerEmit ==
    /\ role = "picker"
    /\ pc = "emit"
    /\ LET spec == plan[emitted + 1]
           bad == {j \in DOMAIN spec : ~Projectable(catalog_records[spec[j]])}
       IN  IF bad /= {}
           THEN /\ PickerExcept(KeyErrorText(FirstMissingKey(catalog_records[spec[MinOf(bad)]])))
                /\ UNCHANGED <<reqs, created, emitted>>
           ELSE LET body == [bundles |-> <<PickerBundle(cur, spec)>>]
                IN  \/ /\ reqs' = Append(reqs, Req("POST", "/Bundles/actions/bulk_create",
                                                   0, body, TRUE))
                       /\ created' = Append(created, body.bundles[1])
                       /\ emitted' = emitted + 1
                       /\ IF emitted + 1 < Len(plan)
                          THEN Goto("emit")
                          ELSE ClaimReturns(TRUE)
                       /\ UNCHANGED qVars
                    \/ \E e \in ErrorTexts :
                          /\ reqs' = Append(reqs, Req("POST", "/Bundles/actions/bulk_create",
                                                      0, body, FALSE))
                          /\ PickerExcept(e)
                          /\ UNCHANGED <<created, emitted>>
    /\ UNCHANGED <<cfgVars, loopVars, catalog, tr, bundle, files, cur, page_start,
                   catalog_files, catalog_records, plan, bundle_records, moved>>

\* The body of the PATCH the quarantine primitive sends.
QuarantineBody(reason) ==
    [status |-> "quarantined",
     reason |-> QuarantineReason(ComponentName(role), instance_uuid, reason),
     work_priority_timestamp |-> now]

\* A faulty quarantine primitive that lets the error of its PATCH escape.
QuarantineTRRaising ==
    /\ pc = "quarantine"
    /\ LET patch_body == QuarantineBody(qreason)
       IN  \/ /\ reqs' = Append(reqs, Req("PATCH", "/TransferRequests/<uuid>", cur,
                                          patch_body, TRUE))
              /\ PatchTR(cur, patch_body)
              /\ AfterQuarantine
           \/ /\ reqs' = Append(reqs, Req("PATCH", "/TransferRequests/<uuid>", cur,
                                          patch_body, FALSE))
              /\ UNCHANGED tr
              /\ ClaimRaises
    /\ UNCHANGED <<cfgVars, loopVars, catalog, created, bundle, files, locVars, qVars>>

\* _quarantine_transfer_request: the PATCH either changes the
\* TransferRequest or raises, which is logged and swallowed.
QuarantineTR ==
    /\ pc = "quarantine"
    /\ LET patch_body == QuarantineBody(qreason)
       IN  \/ /\ reqs' = Append(reqs, Req("PATCH", "/TransferRequests/<uuid>", cur,
                                          patch_body, TRUE))
              /\ PatchTR(cur, patch_body)
           \/ /\ reqs' = Append(reqs, Req("PATCH", "/TransferRequests/<uuid>", cur,
                                          patch_body, FALSE))
              /\ UNCHANGED tr
    /\ AfterQuarantine
    /\ UNCHANGED <<cfgVars, loopVars, catalog, created, bundle, files, locVars, qVars>>

PickerQuarantine == role = "picker" /\ QuarantineTR

PickerNext ==
    \/ PickerPop
    \/ PickerList
    \/ PickerPage
    \/ PickerFetch
    \/ PickerEmit
    \/ PickerQuarantine

(***************************************************************************)
(* Locator.                                                                *)
(***************************************************************************)
LocatorPopUrl == "/TransferRequests/actions/pop?dest&source"

LocatorPop ==
    /\ role = "locator"
    /\ pc = "pop"
    /\ PopTR(LocatorPopUrl)
    /\ UNCHANGED <<cfgVars, loopVars>>

LocatorList == role = "locator" /\ ListFirst

LocatorPage == role = "locator" /\ ListNext

LocatorFetch == role = "locator" /\ FetchRecord

\* GET /api/files/<bundle_uuid> for the next bundle uuid.
LocatorFetchBundle ==
    /\ role = "locator"
    /\ pc = "fetch_bundle"
    /\ LET bundle_uuid == plan[Len(bundle_records) + 1]
       IN  \/ \E bundle_record \in BundleRecordAnswers(bundle_uuid) :
                 /\ reqs' = Append(reqs, Req("GET", "/api/files/<uuid>", bundle_uuid,
                                             << >>, TRUE))
                 /\ bundle_records' = Append(bundle_records, bundle_record)
                 /\ Goto(IF Len(bundle_records) + 1 < Len(plan) THEN "fetch_bundle" ELSE "emit")
                 /\ UNCHANGED qVars
           \/ \E e \in ErrorTexts :
                 /\ reqs' = Append(reqs, Req("GET", "/api/files/<uuid>", bundle_uuid,
                                             << >>, FALSE))
                 /\ LocatorExcept(e)
                 /\ UNCHANGED bundle_records
    /\ UNCHANGED <<cfgVars, envVars, loopVars, cur, page_start, catalog_files,
                   catalog_records, plan, emitted, moved>>

\* The Bundle the Locator creates for an archive of TransferRequest i.
LocatorBundle(i, bundle_record) ==
    [type |-> "Bundle",
     status |-> "located",
     claimed |-> FALSE,
     verified |-> FALSE,
     reason |-> << >>,
     request |-> TRObject(i)["uuid"],
     source |-> TRObject(i)["source"],
     dest |-> TRObject(i)["dest"],
     path |-> TRObject(i)["path"],
     size |-> bundle_record["file_size"],
     bundle_path |-> bundle_record["lta"]["bundle_path"],
     checksum |-> bundle_record["lta"]["checksum"],
     files |-> << >>,
     catalog |-> as_bundle_record(bundle_record)]

\* One round of the emission loop; building the bundle raises KeyError when
\* the bundle record has no lta sub-object.
LocatorEmit ==
    /\ role = "locator"
    /\ pc = "emit"
    /\ LET bundle_record == bundle_records[emitted + 1]
       IN  IF "lta" \notin DOMAIN bundle_record
           THEN /\ LocatorExcept(KeyErrorText("lta"))
                /\ UNCHANGED <<reqs, created, emitted>>
           ELSE LET body == [bundles |-> <<LocatorBundle(cur, bundle_record)>>]
                IN  \/ /\ reqs' = Append(reqs, Req("POST", "/Bundles/actions/bulk_create",
                                                   0, body, TRUE))
                       /\ created' = Append(created, body.bundles[1])
                       /\ emitted' = emitted + 1
                       /\ IF emitted + 1 < Len(bundle_records)
                          THEN Goto("emit")
                          ELSE ClaimReturns(TRUE)
                       /\ UNCHANGED qVars
                    \/ \E e \in ErrorTexts :
                          /\ reqs' = Append(reqs, Req("POST", "/Bundles/actions/bulk_create",
                                                      0, body, FALSE))
                          /\ LocatorExcept(e)
                          /\ UNCHANGED <<created, emitted>>
    /\ UNCHANGED <<cfgVars, loopVars, catalog, tr, bundle, files, cur, page_start,
                   catalog_files, catalog_records, plan, bundle_records, moved>>

LocatorQuarantine == role = "locator" /\ QuarantineTR

LocatorNext ==
    \/ LocatorPop
    \/ LocatorList
    \/ LocatorPage
    \/ LocatorFetch
    \/ LocatorFetchBundle
    \/ LocatorEmit
    \/ LocatorQuarantine

(***************************************************************************)
(* Rucio Stager.                                                           *)
(***************************************************************************)
\* A Bundle the bundler has finished: status created, nobody's claim.
CreatedBundle(b, size) ==
    [uuid |-> b, dest |-> DEST_SITE, status |-> "created", claimed |-> FALSE,
     claimant |-> << >>, reason |-> << >>, size |-> size,
     bundle_path |-> PathJoin(BUNDLER_OUTBOX_PATH, BundleName(b)),
     update_timestamp |-> 0, work_priority_timestamp |-> 0]

\* A file Rucio already holds, in a sub-directory of the inbox.
ForeignFile == PathJoin(PathJoin(RUCIO_INBOX_PATH, <<"s">>), <<"x">>)

\* The file system with the archive of Bundle b in the outbox when
\* disk[b] > 0, of that size, and the foreign file when foreign > 0.
InitialFiles(disk, foreign) ==
    LET archives == {b \in DOMAIN disk : disk[b] > 0}
        paths == {PathJoin(BUNDLER_OUTBOX_PATH, BundleName(b)) : b \in archives}
                    \cup (IF foreign > 0 THEN {ForeignFile} ELSE {})
    IN  [p \in paths |->
            IF p = ForeignFile THEN foreign
            ELSE disk[CHOOSE b \in archives : p = PathJoin(BUNDLER_OUTBOX_PATH, BundleName(b))]]

InitStager ==
    /\ role = "rucio_stager"
    /\ max_file_count = 0
    /\ dest_quota = MaxQuota
    /\ catalog = << >>
    /\ tr = << >>
    /\ created = << >>
    /\ \E size \in [1..NumBundles -> 1..MaxSize] :
          /\ bundle = [b \in 1..NumBundles |-> CreatedBundle(b, size[b])]
          /\ \E foreign \in 0..(MaxQuota + 1) :
             \E disk \in [1..NumBundles -> 0..(MaxSize + 1)] :
                /\ \A b \in 1..NumBundles : disk[b] \in {0, size[b], size[b] + 1}
                /\ files = InitialFiles(disk, foreign)

\* A Stager whose queue holds Bundles of one byte and Bundles larger than
\* the whole quota, before an inbox that is empty or filled to the quota.
InitOversized ==
    /\ role = "rucio_stager"
    /\ max_file_count = 0
    /\ dest_quota = MaxQuota
    /\ catalog = << >>
    /\ tr = << >>
    /\ created = << >>
    /\ \E size \in [1..NumBundles -> {1, MaxQuota + 1}] :
          /\ bundle = [b \in 1..NumBundles |-> CreatedBundle(b, size[b])]
          /\ \E foreign \in {0, MaxQuota} :
             \E disk \in [1..NumBundles -> 0..(MaxQuota + 1)] :
                /\ \A b \in 1..NumBundles : disk[b] \in {0, size[b]}
                /\ files = InitialFiles(disk, foreign)

\* TRUE iff path p lies under directory d.
Under(p, d) == Len(p) > Len(d) + 1 /\ SubSeq(p, 1, Len(d) + 1) = d \o <<"/">>

\* _enumerate_path: the files under path, sub-directories included.
_enumerate_path(path) == {p \in DOMAIN files : Under(p, path)}

RECURSIVE SizeOf(_)
SizeOf(disk_files) ==
    IF disk_files = {} THEN 0
    ELSE LET p == CHOOSE q \in disk_files : TRUE
         IN  files[p] + SizeOf(disk_files \ {p})

\* _get_files_and_size(path)[1]
_get_files_and_size(path) == SizeOf(_enumerate_path(path))

PoppableBundles ==
    {b \in DOMAIN bundle : ~bundle[b].claimed /\ bundle[b].status = "created"
                              /\ bundle[b].dest = DEST_SITE}

\* PATCH /Bundles/<uuid>: the keys of the body replace the entity's.
PatchBundle(b, body) ==
    bundle' = [bundle EXCEPT ![b] = [k \in DOMAIN @ |-> IF k \in DOMAIN body THEN body[k] ELSE @[k]]]

StagerPopUrl == "/Bundles/actions/pop?dest&status=created"

\* _do_work_claim up to the call of _stage_bundle.
StagerPop ==
    /\ role = "rucio_stager"
    /\ pc = "pop"
    /\ \/ PopRaises(StagerPopUrl)
       \/ PoppableBundles = {} /\ PopIdle(StagerPopUrl)
       \/ \E b \in PoppableBundles :
             /\ bundle' = [bundle EXCEPT ![b].claimed = TRUE, ![b].claimant = PopBody.claimant]
             /\ reqs' = <<Req("POST", StagerPopUrl, 0, PopBody, TRUE)>>
             /\ ResetLocalsBut(b)
             /\ Goto("stage")
             /\ UNCHANGED <<catalog, tr, created, files>>
    /\ UNCHANGED <<cfgVars, loopVars>>

\* A faulty handler that returns False after the quarantine.
StagerExceptReturning(e) == GoQuarantine(e, "return_false")

\* The handler of _do_work_claim: quarantine, then raise again.
StagerExcept(e) == GoQuarantine(e, "raise")

\* The text of the error shutil.move raises for a missing source file.
NoSuchFile == <<"E", "N", "O", "E", "N", "T">>

\* A faulty quota test that forgets what the inbox already holds.
OverQuotaBundleOnly(rucio_size, bundle_size) == bundle_size > dest_quota

\* A faulty quota test that admits one byte more than the quota.
OverQuotaOffByOne(rucio_size, bundle_size) == rucio_size + bundle_size > dest_quota + 1

\* A faulty quota test that refuses the Bundle that fills the quota exactly.
OverQuotaAtTheBrim(rucio_size, bundle_size) == rucio_size + bundle_size >= dest_quota

\* A faulty quota test that looks at the inbox alone.
OverQuotaInboxOnly(rucio_size, bundle_size) == rucio_size > dest_quota

\* The quota test of _stage_bundle.
OverQuota(rucio_size, bundle_size) == rucio_size + bundle_size > dest_quota

\* _stage_bundle up to its first request: the inbox is measured and, unless
\* the quota would be exceeded, the archive is moved from the outbox to the
\* inbox (shutil.move raises when the outbox does not hold it).
StagerStage ==
    /\ role = "rucio_stager"
    /\ pc = "stage"
    /\ LET rucio_size == _get_files_and_size(RUCIO_INBOX_PATH)
           bundle_size == bundle[cur]["size"]
           bundle_name == Basename(bundle[cur]["bundle_path"])
           src_path == PathJoin(BUNDLER_OUTBOX_PATH, bundle_name)
           dst_path == PathJoin(RUCIO_INBOX_PATH, bundle_name)
       IN  IF OverQuota(rucio_size, bundle_size)
           THEN Goto("unclaim") /\ UNCHANGED <<files, moved, qVars>>
           ELSE IF src_path \notin DOMAIN files
           THEN StagerExcept(NoSuchFile) /\ UNCHANGED <<files, moved>>
           ELSE /\ files' = [p \in ((DOMAIN files) \ {src_path}) \cup {dst_path} |->
                                IF p = dst_path THEN files[src_path] ELSE files[p]]
                /\ moved' = TRUE
                /\ Goto("patch")
                /\ UNCHANGED qVars
    /\ UNCHANGED <<cfgVars, loopVars, catalog, tr, created, bundle, cur, page_start,
                   catalog_files, catalog_records, plan, bundle_records, emitted, reqs>>

\* A faulty PATCH step after which _do_work_claim returns True.
StagerPatchReturningTrue(patch_body) ==
    /\ \/ /\ reqs' = Append(reqs, Req("PATCH", "/Bundles/<uuid>", cur, patch_body, TRUE))
          /\ PatchBundle(cur, patch_body)
          /\ ClaimReturns(TRUE)
          /\ UNCHANGED qVars
       \/ \E e \in ErrorTexts :
             /\ reqs' = Append(reqs, Req("PATCH", "/Bundles/<uuid>", cur, patch_body, FALSE))
             /\ StagerExcept(e)
             /\ UNCHANGED bundle
    /\ UNCHANGED <<cfgVars, loopVars, catalog, tr, created, files, locVars>>

\* A faulty PATCH step that puts the archive back into the outbox when the
\* PATCH after the move raises.
StagerPatchMovingBack(patch_body) ==
    /\ \/ /\ reqs' = Append(reqs, Req("PATCH", "/Bundles/<uuid>", cur, patch_body, TRUE))
          /\ PatchBundle(cur, patch_body)
          /\ ClaimReturns(FALSE)
          /\ UNCHANGED <<qVars, files>>
       \/ \E e \in ErrorTexts :
             /\ reqs' = Append(reqs, Req("PATCH", "/Bundles/<uuid>", cur, patch_body, FALSE))
             /\ StagerExcept(e)
             /\ LET src_path == PathJoin(RUCIO_INBOX_PATH, BundleName(cur))
                    dst_path == PathJoin(BUNDLER_OUTBOX_PATH, BundleName(cur))
                IN  files' = IF moved /\ src_path \in DOMAIN files
                             THEN [p \in ((DOMAIN files) \ {src_path}) \cup {dst_path} |->
                                      IF p = dst_path THEN files[src_path] ELSE files[p]]
                             ELSE files
             /\ UNCHANGED bundle
    /\ UNCHANGED <<cfgVars, loopVars, catalog, tr, created, locVars>>

\* A PATCH of the claimed Bundle made by _stage_bundle or _unclaim_bundle:
\* answered, _do_work_claim returns False; raised, the handler takes over.
StagerPatch(patch_body) ==
    /\ \/ /\ reqs' = Append(reqs, Req("PATCH", "/Bundles/<uuid>", cur, patch_body, TRUE))
          /\ PatchBundle(cur, patch_body)
          /\ ClaimReturns(FALSE)
          /\ UNCHANGED qVars
       \/ \E e \in ErrorTexts :
             /\ reqs' = Append(reqs, Req("PATCH", "/Bundles/<uuid>", cur, patch_body, FALSE))
             /\ StagerExcept(e)
             /\ UNCHANGED bundle
    /\ UNCHANGED <<cfgVars, loopVars, catalog, tr, created, files, locVars>>

\* _unclaim_bundle
StagerUnclaim ==
    /\ role = "rucio_stager"
    /\ pc = "unclaim"
    /\ StagerPatch([claimed |-> FALSE,
                    update_timestamp |-> now,
                    work_priority_timestamp |-> now])

\* A faulty last PATCH of _stage_bundle that writes the size as well.
StagerAdvanceWithSize ==
    /\ role = "rucio_stager"
    /\ pc = "patch"
    /\ StagerPatch([bundle_path |-> PathJoin(RUCIO_INBOX_PATH,
                                             Basename(bundle[cur]["bundle_path"])),
                    claimed |-> FALSE,
                    status |-> "staged",
                    reason |-> << >>,
                    size |-> bundle[cur]["size"],
                    update_timestamp |-> now])

\* The PATCH that ends _stage_bundle after the move.
StagerAdvance ==
    /\ role = "rucio_stager"
    /\ pc = "patch"
    /\ StagerPatch([bundle_path |-> PathJoin(RUCIO_INBOX_PATH,
                                             Basename(bundle[cur]["bundle_path"])),
                    claimed |-> FALSE,
                    status |-> "staged",
                    reason |-> << >>,
                    update_timestamp |-> now])

\* _quarantine_bundle
StagerQuarantine ==
    /\ role = "rucio_stager"
    /\ pc = "quarantine"
    /\ LET patch_body == QuarantineBody(qreason)
       IN  \/ /\ reqs' = Append(reqs, Req("PATCH", "/Bundles/<uuid>", cur, patch_body, TRUE))
              /\ PatchBundle(cur, patch_body)
           \/ /\ reqs' = Append(reqs, Req("PATCH", "/Bundles/<uuid>", cur, patch_body, FALSE))
              /\ UNCHANGED bundle
    /\ AfterQuarantine
    /\ UNCHANGED <<cfgVars, loopVars, catalog, tr, created, files, locVars, qVars>>

\* Rucio has transferred a file of its inbox and removes it.
RucioDrains ==
    /\ role = "rucio_stager"
    /\ \E p \in _enumerate_path(RUCIO_INBOX_PATH) :
          files' = [q \in (DOMAIN files) \ {p} |-> files[q]]
    /\ UNCHANGED <<cfgVars, catalog, tr, created, bundle, loopVars, ctlVars, locVars,
                   qVars, reqs>>

\* The requests and sleeps the work loop awaits: every position of the work
\* loop but the one before the inbox measurement and the move, which are
\* blocking calls made between the answer of the pop and the next PATCH.
AwaitPoints == {"sleep", "pop", "list", "page", "fetch", "fetch_bundle", "emit",
                "quarantine", "unclaim", "patch"}

\* The event loop runs another task only while the work loop awaits.
Suspended == pc \in AwaitPoints

\* status_loop: the heartbeat publishes the status document of the worker
\* while the work loop is suspended.
StatusLoop ==
    /\ Suspended
    /\ status' = [timestamp |-> now,
                  last_work_begin_timestamp |-> last_work_begin_timestamp,
                  last_work_end_timestamp |-> last_work_end_timestamp]
    /\ UNCHANGED <<role, instance_uuid, run_once_and_die, max_file_count, dest_quota,
                   parked, envVars, loopVars, ctlVars, locVars, qVars, reqs>>

StagerNext ==
    \/ StagerPop
    \/ StagerStage
    \/ StagerUnclaim
    \/ StagerAdvance
    \/ StagerQuarantine
    \/ RucioDrains

(***************************************************************************)
(* Specifications.                                                         *)
(***************************************************************************)
InitConfig ==
    /\ instance_uuid \in InstanceUuids
    /\ run_once_and_die \in BOOLEAN
    /\ InitWorker

Init == InitConfig /\ (InitPicker \/ InitLocator \/ InitStager)

Next ==
    \/ WorkLoopRun
    \/ PickerNext
    \/ LocatorNext
    \/ StagerNext

Spec == Init /\ [][Next]_vars

\* The Picker alone.
PickerInit == InitConfig /\ InitPicker
PickerStep == WorkLoopRun \/ PickerNext
SpecPicker == PickerInit /\ [][PickerStep]_vars

\* The Picker in the end-to-end scenario S1: the File Catalog holds three
\* records of 300, 400 and 500 bytes, the destination has a bundle_size of
\* 1000 and MAX_FILE_COUNT is 25000.
InitS1 ==
    /\ role = "picker"
    /\ max_file_count = 25000
    /\ dest_quota = 0
    /\ catalog = [i \in 1..3 |-> CatalogRecord(i, <<300, 400, 500>>[i], << >>, {})]
    /\ tr = [i \in 1..NumTRs |-> NewTR(ScenarioSite)]
    /\ created = << >>
    /\ bundle = << >>
    /\ files = << >>

S1Init == InitConfig /\ InitS1
SpecS1 == S1Init /\ [][PickerStep]_vars

\* The Picker in the end-to-end scenario S2: the File Catalog holds four
\* records of 700, 600, 500 and 400 bytes and the destination has a
\* bundle_size of 1000; MAX_FILE_COUNT is the default.
InitS2 ==
    /\ role = "picker"
    /\ max_file_count = 25000
    /\ dest_quota = 0
    /\ catalog = [i \in 1..4 |-> CatalogRecord(i, <<700, 600, 500, 400>>[i], << >>, {})]
    /\ tr = [i \in 1..NumTRs |-> NewTR(ScenarioSite)]
    /\ created = << >>
    /\ bundle = << >>
    /\ files = << >>

\* The Picker before the catalogs of SpecPicker or in scenario S2.
BundlingInit == InitConfig /\ (InitPicker \/ InitS2)
SpecBundling == BundlingInit /\ [][PickerStep]_vars

\* The Picker before catalogs of up to MaxPackFiles files of 2 or 3 bytes,
\* for a destination whose bundle_size is 7; MAX_FILE_COUNT is the default.
InitPacking ==
    /\ role = "picker"
    /\ max_file_count = 25000
    /\ dest_quota = 0
    /\ \E sizes \in SeqsUpTo(PackSizes, MaxPackFiles) :
          catalog = [i \in DOMAIN sizes |-> CatalogRecord(i, sizes[i], << >>, {})]
    /\ tr = [i \in 1..NumTRs |-> NewTR(PackingSite)]
    /\ created = << >>
    /\ bundle = << >>
    /\ files = << >>

PackingInit == InitConfig /\ InitPacking
SpecPacking == PackingInit /\ [][PickerStep]_vars

\* The Locator alone.
LocatorInit == InitConfig /\ InitLocator
LocatorStep == WorkLoopRun \/ LocatorNext
SpecLocator == LocatorInit /\ [][LocatorStep]_vars

\* The archive locations of the end-to-end scenario S5, all at the source:
\* two in the archive DEADBEEF1234, one in the archive CAFEBABE5678.
S5Inner1 ==
    Location("True", SOURCE_SITE,
        <<"/", "a", "/", "b", "/", "D", "E", "A", "D", "B", "E", "E", "F",
          "1", "2", "3", "4", ".", "z", "i", "p", ":", "i", "n", "n", "e",
          "r", "-", "1">>)
S5Inner2 ==
    Location("True", SOURCE_SITE,
        <<"/", "a", "/", "b", "/", "D", "E", "A", "D", "B", "E", "E", "F",
          "1", "2", "3", "4", ".", "z", "i", "p", ":", "i", "n", "n", "e",
          "r", "-", "2">>)
S5Inner3 ==
    Location("True", SOURCE_SITE,
        <<"/", "a", "/", "b", "/", "C", "A", "F", "E", "B", "A", "B", "E",
          "5", "6", "7", "8", ".", "z", "i", "p", ":", "i", "n", "n", "e",
          "r", "-", "3">>)

\* The Locator in scenario S5: three records, one location each.
InitS5 ==
    /\ role = "locator"
    /\ max_file_count = 0
    /\ dest_quota = 0
    /\ catalog = [i \in 1..3 |->
                     CatalogRecord(i, 1, <<<<S5Inner1>>, <<S5Inner2>>, <<S5Inner3>>>>[i], {})]
    /\ tr = [i \in 1..NumTRs |-> NewTR(DEST_SITE)]
    /\ created = << >>
    /\ bundle = << >>
    /\ files = << >>

\* The Locator before the catalogs of SpecLocator or in scenario S5.
LocatingInit == InitConfig /\ (InitLocator \/ InitS5)
SpecLocating == LocatingInit /\ [][LocatorStep]_vars

\* The Picker before catalogs of up to MaxPackFiles files of one byte, which
\* take several pages.
InitLongCatalog ==
    /\ role = "picker"
    /\ max_file_count = 25000
    /\ dest_quota = 0
    /\ \E n \in 0..MaxPackFiles :
          catalog = [i \in 1..n |-> CatalogRecord(i, 1, << >>, {})]
    /\ tr = [i \in 1..NumTRs |-> NewTR(PackingSite)]
    /\ created = << >>
    /\ bundle = << >>
    /\ files = << >>

\* The Picker before catalogs of several pages, or the Locator.
PagingInit == InitConfig /\ (InitLongCatalog \/ InitLocator)
PagingStep == WorkLoopRun \/ PickerNext \/ LocatorNext
SpecPaging == PagingInit /\ [][PagingStep]_vars

\* The Rucio Stager alone.
StagerInit == InitConfig /\ InitStager
StagerStep == WorkLoopRun \/ StagerNext
SpecStager == StagerInit /\ [][StagerStep]_vars

\* The steps of the work loop of the Stager: the event loop resumes the
\* coroutine when its sleep ends and when the request it awaits is answered
\* or raises, at the latest after WORK_TIMEOUT_SECONDS.
StagerWorkStep ==
    \/ WorkLoopRun
    \/ StagerPop
    \/ StagerStage
    \/ StagerUnclaim
    \/ StagerAdvance
    \/ StagerQuarantine

\* A Stager that drains its queue, before an inbox Rucio has files in and an
\* outbox whose archives have the size the LTA DB registered.
CrowdedInit ==
    /\ StagerInit
    /\ ~run_once_and_die
    /\ ForeignFile \in DOMAIN files
    /\ \A b \in DOMAIN bundle :
          LET p == PathJoin(BUNDLER_OUTBOX_PATH, BundleName(b))
          IN  p \in DOMAIN files => files[p] = bundle[b].size

\* The Stager whose work loop is never suspended for ever.
SpecStagerFair == CrowdedInit /\ [][StagerStep]_vars /\ WF_vars(StagerWorkStep)

\* The Stager before Bundles that exceed the quota on their own.
OversizedInit == InitConfig /\ InitOversized
SpecOversized == OversizedInit /\ [][StagerStep]_vars

\* The instance uuid of a second worker started from the same configuration.
OtherUuid == <<"2", "b", "-", "8">>

\* The state of the instance that runs.
Running ==
    [instance_uuid |-> instance_uuid,
     pc |-> pc,
     cycle |-> cycle,
     last_work_begin_timestamp |-> last_work_begin_timestamp,
     last_work_end_timestamp |-> last_work_end_timestamp,
     work_result |-> work_result,
     claims |-> claims,
     claim_result |-> claim_result,
     cur |-> cur,
     page_start |-> page_start,
     catalog_files |-> catalog_files,
     catalog_records |-> catalog_records,
     plan |-> plan,
     bundle_records |-> bundle_records,
     emitted |-> emitted,
     qreason |-> qreason,
     qafter |-> qafter,
     moved |-> moved,
     reqs |-> reqs]

\* Two instances of one component run as two processes against the same
\* LTA DB, File Catalog and disk: between two requests of one instance the
\* other may make its own. The instance that waited takes over.
Switch ==
    /\ parked.instance_uuid /= << >>
    /\ parked' = Running
    /\ instance_uuid' = parked.instance_uuid
    /\ pc' = parked.pc
    /\ cycle' = parked.cycle
    /\ last_work_begin_timestamp' = parked.last_work_begin_timestamp
    /\ last_work_end_timestamp' = parked.last_work_end_timestamp
    /\ work_result' = parked.work_result
    /\ claims' = parked.claims
    /\ claim_result' = parked.claim_result
    /\ cur' = parked.cur
    /\ page_start' = parked.page_start
    /\ catalog_files' = parked.catalog_files
    /\ catalog_records' = parked.catalog_records
    /\ plan' = parked.plan
    /\ bundle_records' = parked.bundle_records
    /\ emitted' = parked.emitted
    /\ qreason' = parked.qreason
    /\ qafter' = parked.qafter
    /\ moved' = parked.moved
    /\ reqs' = parked.reqs
    /\ UNCHANGED <<role, run_once_and_die, max_file_count, dest_quota, status, envVars>>

\* The instance that runs is in state w.
Installed(w) ==
    /\ instance_uuid = w.instance_uuid
    /\ pc = w.pc
    /\ cycle = w.cycle
    /\ last_work_begin_timestamp = w.last_work_begin_timestamp
    /\ last_work_end_timestamp = w.last_work_end_timestamp
    /\ work_result = w.work_result
    /\ claims = w.claims
    /\ claim_result = w.claim_result
    /\ cur = w.cur
    /\ page_start = w.page_start
    /\ catalog_files = w.catalog_files
    /\ catalog_records = w.catalog_records
    /\ plan = w.plan
    /\ bundle_records = w.bundle_records
    /\ emitted = w.emitted
    /\ qreason = w.qreason
    /\ qafter = w.qafter
    /\ moved = w.moved
    /\ reqs = w.reqs

\* Two TransferRequests wait for the Pickers, each with the same two files
\* of the full size in the File Catalog.
InitPickerPair ==
    /\ role = "picker"
    /\ max_file_count = MaxFileCount
    /\ dest_quota = 0
    /\ catalog = [i \in 1..2 |-> CatalogRecord(i, MaxSize, << >>, {})]
    /\ tr = [i \in 1..2 |-> NewTR(DEST_SITE)]
    /\ created = << >>
    /\ bundle = << >>
    /\ files = << >>

\* Two TransferRequests wait for the Locators, their two files in two
\* archives.
InitLocatorPair ==
    /\ role = "locator"
    /\ max_file_count = 0
    /\ dest_quota = 0
    /\ catalog = [i \in 1..2 |-> CatalogRecord(i, 1, <<ArchiveC2, ArchiveD1a>>, {})]
    /\ tr = [i \in 1..2 |-> NewTR(DEST_SITE)]
    /\ created = << >>
    /\ bundle = << >>
    /\ files = << >>

\* Two Bundles of one byte wait for the Stagers in the outbox, the inbox
\* filled to the quota until Rucio drains it.
InitStagerPair ==
    /\ role = "rucio_stager"
    /\ max_file_count = 0
    /\ dest_quota = MaxQuota
    /\ catalog = << >>
    /\ tr = << >>
    /\ created = << >>
    /\ bundle = [b \in 1..2 |-> CreatedBundle(b, 1)]
    /\ files = InitialFiles([b \in 1..2 |-> 1], MaxQuota)

\* Two instances of one component, started from the same configuration.
PairInit ==
    /\ InitPickerPair \/ InitLocatorPair \/ InitStagerPair
    /\ run_once_and_die = FALSE
    /\ status = NoStatus
    /\ \E u \in InstanceUuids : Installed(Fresh(u))
    /\ parked = Fresh(OtherUuid)

PairStep == Next \/ Switch
SpecPair == PairInit /\ [][PairStep]_vars

\* The two tasks of the event loop of a worker, as runner starts them: the
\* work loop and the heartbeat loop.
RunnerStep == Next \/ StatusLoop
SpecRunner == Init /\ [][RunnerStep]_vars

(***************************************************************************)
(* Vocabulary of the properties.                                           *)
(***************************************************************************)
\* The last _do_work_claim has ended and reqs is the log of its requests.
ClaimEnded == pc \in {"pop", "sleep"} /\ claim_result /= "none"

IsBulkCreate(r) == r.op = "POST" /\ r.url = "/Bundles/actions/bulk_create"

IsQuarantine(r) == r.op = "PATCH" /\ "status" \in DOMAIN r.body /\ r.body.status = "quarantined"

IsPatch(r) == r.op = "PATCH"

\* The requests of the log that satisfy Test, in order.
Logged(Test(_)) == SelectSeq(reqs, Test)

\* The bundles the LTA DB created in this _do_work_claim, in order.
EmittedBundles ==
    LET answered == SelectSeq(reqs, LAMBDA r : IsBulkCreate(r) /\ r.ok)
    IN  [k \in DOMAIN answered |-> answered[k].body.bundles[1]]

\* ^BY:[^ ]+ REASON:.+ as re.match applies it: after BY: one or more
\* characters other than a space, then " REASON:", then at least one
\* character other than a newline.
MatchesReasonPattern(s) ==
    \E n \in 1..Len(s) :
        /\ Len(s) >= 3 + n + 8 + 1
        /\ SubSeq(s, 1, 3) = <<"B", "Y", ":">>
        /\ \A i \in 4..(3 + n) : s[i] /= " "
        /\ SubSeq(s, 4 + n, 11 + n) = <<" ", "R", "E", "A", "S", "O", "N", ":">>
        /\ s[12 + n] /= "\n"

(***************************************************************************)
(* Picker: the emitted bundles partition the fetched records.              *)
(***************************************************************************)
\* The Picker's _do_work_claim went through the whole emission loop.
PickerEmittedAll ==
    /\ role = "picker"
    /\ ClaimEnded
    /\ claim_result = "True"
    /\ catalog_records /= << >>
    /\ Logged(IsPatch) = << >>

\* The places <<bundle, position>> of the files of the emitted bundles.
EmittedPlaces ==
    UNION {{<<k, j>> : j \in DOMAIN EmittedBundles[k].files} : k \in DOMAIN EmittedBundles}

\* The sizes of the files of bundle b.
SizesOf(b) == [j \in DOMAIN b.files |-> b.files[j].file_size]

\* The number of places at which fetched record i was emitted.
TimesEmitted(i) ==
    Cardinality({kj \in EmittedPlaces :
        EmittedBundles[kj[1]].files[kj[2]].uuid = catalog_records[i].uuid})

\* C1: in a Picker run over the fetched records, no record is in the files
\* lists of the emitted bundles more than once, and once the emission loop
\* has gone through all bins every fetched record is there exactly once;
\* every file of an emitted bundle is the projection of a fetched record;
\* and the file sizes of an emitted bundle sum to at most the destination's
\* bundle_size unless the bundle is a single record that is larger than
\* bundle_size by itself.
C1_BundlesPartitionRecords ==
    role = "picker" =>
        /\ \A i \in DOMAIN catalog_records : TimesEmitted(i) <= 1
        /\ PickerEmittedAll => \A i \in DOMAIN catalog_records : TimesEmitted(i) = 1
        /\ \A kj \in EmittedPlaces :
              \E i \in DOMAIN catalog_records :
                  /\ EmittedBundles[kj[1]].files[kj[2]].uuid = catalog_records[i].uuid
                  /\ EmittedBundles[kj[1]].files[kj[2]].file_size = catalog_records[i].file_size
        /\ \A k \in DOMAIN EmittedBundles :
              LET b == EmittedBundles[k]
              IN  \/ SumSeq(SizesOf(b)) <= bundle_size_of(b.dest)
                  \/ Len(b.files) = 1 /\ b.files[1].file_size > bundle_size_of(b.dest)

\* Two bundles were emitted, one of them a single oversized record.
C1_Witness ==
    /\ PickerEmittedAll
    /\ Len(EmittedBundles) = 2
    /\ \E k \in DOMAIN EmittedBundles :
          EmittedBundles[k].files[1].file_size > bundle_size_of(EmittedBundles[k].dest)

(***************************************************************************)
(* Picker: the file count gate.                                            *)
(***************************************************************************)
\* The bins of the packing that hold more than max_file_count records.
OverfullBins == {b \in DOMAIN plan : Len(plan[b]) > max_file_count}

\* C2: no bundle the Picker emits has more than MAX_FILE_COUNT files; when
\* a bin of the packing holds more than MAX_FILE_COUNT records, no
\* bulk_create is issued for the TransferRequest and the one PATCH of the
\* invocation quarantines it with a reason that names the count of the
\* first such bin and the limit; the invocation returns True.
C2_FileCountGate ==
    role = "picker" =>
        /\ \A k \in DOMAIN reqs :
              IsBulkCreate(reqs[k]) => Len(reqs[k].body.bundles[1].files) <= max_file_count
        /\ OverfullBins /= {} =>
              /\ Logged(IsBulkCreate) = << >>
              /\ pc /= "quarantine" =>
                    LET patches == Logged(IsPatch)
                        count == Len(plan[MinOf(OverfullBins)])
                        text == PackingListReason(count, max_file_count)
                    IN  /\ Len(patches) = 1
                        /\ IsQuarantine(patches[1])
                        /\ patches[1].id = cur
                        /\ patches[1].body.reason
                              = QuarantineReason(ComponentName(role), instance_uuid, text)
                        /\ Contains(text, <<" ">> \o ToStr(count) \o <<" ">>)
                        /\ Contains(text, <<" ">> \o ToStr(max_file_count))
                        /\ patches[1].ok => tr[cur].status = "quarantined"
                        /\ ClaimEnded /\ claim_result = "True"

\* A packing with an overfull bin was refused and the TransferRequest is
\* in quarantine.
C2_Witness ==
    /\ role = "picker"
    /\ OverfullBins /= {}
    /\ pc /= "quarantine"
    /\ tr[cur].status = "quarantined"

(***************************************************************************)
(* Stager: a bundle that would exceed the quota.                           *)
(***************************************************************************)
InboxSize == _get_files_and_size(RUCIO_INBOX_PATH)

IsUnclaim(r) ==
    /\ IsPatch(r)
    /\ DOMAIN r.body = {"claimed", "update_timestamp", "work_priority_timestamp"}
    /\ r.body.claimed = FALSE

\* _stage_bundle found the quota exceeded and called _unclaim_bundle.
TookUnclaimBranch ==
    /\ role = "rucio_stager"
    /\ pc = "unclaim" \/ \E k \in DOMAIN reqs : IsUnclaim(reqs[k])

\* The archive of the claimed Bundle is in the inbox.
ArchiveInInbox == PathJoin(RUCIO_INBOX_PATH, BundleName(cur)) \in DOMAIN files

\* The statement of C3 as the specification has it: once the quota test
\* fails, nothing is moved, the Bundle keeps its status and every PATCH of
\* the invocation writes claimed, update_timestamp and
\* work_priority_timestamp and nothing else.
C3_AsStated ==
    TookUnclaimBranch =>
        /\ ~moved /\ ~ArchiveInInbox
        /\ bundle[cur].status = "created"
        /\ \A k \in DOMAIN reqs : IsPatch(reqs[k]) => IsUnclaim(reqs[k])

\* The step of _stage_bundle that finds the quota exceeded.
C3_QuotaStep ==
    (/\ role = "rucio_stager"
     /\ pc = "stage"
     /\ pc' /= "stage"
     /\ InboxSize + bundle[cur].size > dest_quota)
        => (files' = files /\ bundle' = bundle /\ pc' = "unclaim")

\* What the invocation does after the quota test failed.
C3_UnclaimBranch ==
    TookUnclaimBranch =>
        LET patches == Logged(IsPatch)
        IN  /\ ~moved /\ ~ArchiveInInbox
            /\ Len(patches) <= 2
            /\ pc /= "unclaim" => Len(patches) >= 1
            /\ Len(patches) >= 1 =>
                  /\ IsUnclaim(patches[1]) /\ patches[1].id = cur
                  /\ patches[1].ok =>
                        /\ Len(patches) = 1
                        /\ bundle[cur].status = "created"
                        /\ ~bundle[cur].claimed
                        /\ claim_result = "False"
                  /\ ~patches[1].ok =>
                        /\ pc = "quarantine" \/ Len(patches) = 2
                        /\ Len(patches) = 2 =>
                              /\ IsQuarantine(patches[2]) /\ patches[2].id = cur
                              /\ claim_result = "raised"
                              /\ bundle[cur].status
                                    = IF patches[2].ok THEN "quarantined" ELSE "created"

\* C3 (amended): when rucio_size + bundle.size exceeds DEST_QUOTA the
\* Stager moves no file and changes no Bundle in that step and goes on to
\* unclaim the Bundle. When the unclaim PATCH is answered it is the only
\* PATCH, it writes claimed, update_timestamp and work_priority_timestamp
\* only, and the Bundle keeps status created. When the unclaim PATCH
\* raises, the handler sends the Bundle to quarantine and the invocation
\* raises; still no file is moved.
C3_OverQuotaLeavesFiles == [][C3_QuotaStep]_vars /\ []C3_UnclaimBranch

\* A Bundle was unclaimed in the first work cycle for lack of room, and in
\* the second its unclaim PATCH raised and it went to quarantine.
C3_Witness ==
    /\ TookUnclaimBranch
    /\ cycle = 2
    /\ bundle[cur].update_timestamp = 1
    /\ Len(Logged(IsPatch)) = 2
    /\ bundle[cur].status = "quarantined"
    /\ ~moved

(***************************************************************************)
(* Stager: the inbox stays within the quota.                               *)
(***************************************************************************)
\* Every archive on disk has the size its Bundle declares.
SizesAgree ==
    \A b \in DOMAIN bundle : \A d \in {BUNDLER_OUTBOX_PATH, RUCIO_INBOX_PATH} :
        PathJoin(d, BundleName(b)) \in DOMAIN files
            => files[PathJoin(d, BundleName(b))] = bundle[b].size

\* What Rucio held before the Stager started is within the quota.
ForeignWithinQuota == ForeignFile \in DOMAIN files => files[ForeignFile] <= dest_quota

C4_InboxWithinQuota ==
    (role = "rucio_stager" /\ SizesAgree /\ ForeignWithinQuota) => InboxSize <= dest_quota

C4_MoveStep ==
    (role = "rucio_stager" /\ ~moved /\ moved')
        => /\ InboxSize + bundle[cur].size <= dest_quota
           /\ SizesAgree => InboxSize' = InboxSize + bundle[cur].size

\* C4: with one Stager on the inbox, archives of the declared size and an
\* inbox that is within DEST_QUOTA to begin with, the inbox never holds
\* more than DEST_QUOTA; a Bundle is moved only when rucio_size +
\* bundle.size <= DEST_QUOTA, equality admitted.
C4_QuotaNeverExceeded == []C4_InboxWithinQuota /\ [][C4_MoveStep]_vars

\* A move has filled the inbox exactly to the quota.
C4_Witness ==
    /\ role = "rucio_stager"
    /\ moved
    /\ ArchiveInInbox
    /\ ForeignFile \in DOMAIN files
    /\ SizesAgree
    /\ InboxSize = dest_quota

(***************************************************************************)
(* Locator: one bundle for each distinct archive.                          *)
(***************************************************************************)
\* The places <<record, position>> of the participating locations.
Participating(records, source) ==
    {ij \in UNION {{<<i, j>> : j \in DOMAIN records[i].locations} : i \in DOMAIN records} :
        LET location == records[ij[1]].locations[ij[2]]
        IN  /\ "archive" \in DOMAIN location
            /\ location.archive = "True"
            /\ location.site = source}

\* The distinct archive uuids of the participating locations.
ArchiveUuids(records, source) ==
    {BundleUuidOf(records[ij[1]].locations[ij[2]].path) : ij \in Participating(records, source)}

\* records with location appended to the locations of record k.
WithLocation(records, k, location) ==
    [records EXCEPT ![k] = [l \in DOMAIN @ |->
        IF l = "locations" THEN Append(@[l], location) ELSE @[l]]]

\* Another location of the archive uuid at the source, under another path.
AliasOf(uuid, source) ==
    Location("True", source, <<"/", "z", "/">> \o uuid \o <<".", "t", ":", "m">>)

\* The Locator's _do_work_claim went through the whole emission loop.
LocatorEmittedAll ==
    /\ role = "locator"
    /\ ClaimEnded
    /\ claim_result = "True"
    /\ catalog_records /= << >>
    /\ Logged(IsPatch) = << >>

\* The Locator has just derived the bundle uuids from the fetched records.
JustDerived == role = "locator" /\ pc = "fetch_bundle" /\ bundle_records = << >>

\* C5: a Locator run issues at most one bulk_create for each distinct
\* archive uuid of the participating locations of the fetched records, and
\* when its emission loop has run to the end the number of bulk_create
\* calls equals the number of distinct uuids; the uuid list derived from
\* the fetched records has one entry for each distinct uuid and is the same
\* when a participating location is repeated in its record or a later
\* one, or when another location of an archive already seen is added.
C5_OneBundlePerArchive ==
    role = "locator" =>
        LET uuids == ArchiveUuids(catalog_records, SOURCE_SITE)
            list == _get_unique_archives(catalog_records, SOURCE_SITE)
        IN  /\ Len(Logged(IsBulkCreate)) <= Cardinality(uuids)
            /\ LocatorEmittedAll =>
                  /\ Len(EmittedBundles) = Cardinality(uuids)
                  /\ Len(Logged(IsBulkCreate)) = Cardinality(uuids)
                  /\ tr[cur].source = SOURCE_SITE
            /\ JustDerived =>
                  /\ plan = list
                  /\ Len(list) = Cardinality(uuids)
                  /\ \A ij \in Participating(catalog_records, SOURCE_SITE) :
                     \A k \in ij[1]..Len(catalog_records) :
                        LET location == catalog_records[ij[1]].locations[ij[2]]
                            alias == AliasOf(BundleUuidOf(location.path), SOURCE_SITE)
                        IN  /\ _get_unique_archives(WithLocation(catalog_records, k, location),
                                                    SOURCE_SITE) = list
                            /\ _get_unique_archives(WithLocation(catalog_records, k, alias),
                                                    SOURCE_SITE) = list

\* Two records with four participating locations of two archives were
\* fetched and two bundles emitted.
C5_Witness ==
    /\ LocatorEmittedAll
    /\ Cardinality(Participating(catalog_records, SOURCE_SITE)) = 4
    /\ Len(EmittedBundles) = 2

(***************************************************************************)
(* Quarantine reasons.                                                     *)
(***************************************************************************)
\* BY:<claimant> REASON: with the claimant of the pop body of the invocation.
ReasonPrefix == <<"B", "Y", ":">> \o reqs[1].body.claimant \o <<" ", "R", "E", "A", "S", "O", "N", ":">>

\* C6: every quarantine PATCH carries a reason that matches
\* ^BY:[^ ]+ REASON:.+ : it starts with BY:<claimant> REASON:, the claimant
\* being the one sent in the pop body, and a non-empty cause follows.
C6_ReasonsMatch ==
    \A k \in DOMAIN reqs :
        IsQuarantine(reqs[k]) =>
            LET reason == reqs[k].body.reason
            IN  /\ MatchesReasonPattern(reason)
                /\ Len(reason) > Len(ReasonPrefix)
                /\ SubSeq(reason, 1, Len(ReasonPrefix)) = ReasonPrefix

(***************************************************************************)
(* A quarantine PATCH that fails.                                          *)
(***************************************************************************)
\* The entity the invocation has claimed.
Entity == IF role = "rucio_stager" THEN bundle[cur] ELSE tr[cur]

LastReq == reqs[Len(reqs)]

\* The step of the quarantine primitive in which its PATCH raises.
C7_FailedQuarantineStep ==
    (pc = "quarantine" /\ pc' /= "quarantine" /\ ~LastReq'.ok)
        => /\ UNCHANGED envVars
           /\ Len(reqs') = Len(reqs) + 1 /\ IsQuarantine(LastReq')
           /\ claim_result' = CASE qafter = "return_true" -> "True"
                                [] qafter = "return_false" -> "False"
                                [] OTHER -> "raised"
           /\ role = "picker" => claim_result' /= "raised"
           /\ pc' = IF claim_result' = "True" /\ ~run_once_and_die THEN "pop" ELSE "sleep"

\* The invocation has ended with a quarantine PATCH that raised.
QuarantineFailed == ClaimEnded /\ reqs /= << >> /\ IsQuarantine(LastReq) /\ ~LastReq.ok

C7_EntityLeftAsItWas ==
    QuarantineFailed =>
        /\ Entity.status = IF role = "rucio_stager" THEN "created" ELSE "ethereal"
        /\ Entity.claimed
        /\ Entity.reason = << >>

\* C7: when the quarantine PATCH raises, the quarantine primitive returns
\* normally: the step changes nothing in the LTA DB or on disk, the entity
\* keeps its status and stays claimed, and the invocation ends as it does
\* after an answered quarantine PATCH: the Picker returns (False after an
\* exception, True after a data condition) and never raises, the Locator
\* and the Stager raise the exception they had caught.
C7_FailedQuarantineSwallowed == [][C7_FailedQuarantineStep]_vars /\ []C7_EntityLeftAsItWas

\* A Picker invocation ended by returning False after its quarantine PATCH
\* raised; the TransferRequest is still claimed and not in quarantine.
C7_Witness ==
    /\ QuarantineFailed
    /\ role = "picker"
    /\ claim_result = "False"
    /\ tr[cur].claimed
    /\ tr[cur].status = "ethereal"

(***************************************************************************)
(* The work loop.                                                          *)
(***************************************************************************)
\* C8: when _do_work raises, the attempt ends normally: the worker is at
\* the sleep of its work loop, last_work_end_timestamp holds the time the
\* attempt ended, not earlier than last_work_begin_timestamp, and the next
\* attempt can start.
C8_RunSurvivesException ==
    work_result = "raised" =>
        /\ pc = "sleep"
        /\ last_work_end_timestamp = now
        /\ last_work_end_timestamp >= last_work_begin_timestamp
        /\ cycle < MaxCycles => ENABLED WorkLoopRun

\* The Locator or the Stager raised again after its quarantine PATCH and
\* the work loop is at its sleep, with another attempt to come.
C8_Witness ==
    /\ work_result = "raised"
    /\ role \in {"locator", "rucio_stager"}
    /\ \E k \in DOMAIN reqs : IsQuarantine(reqs[k])
    /\ pc = "sleep"
    /\ cycle < MaxCycles

\* The pop request of the invocation raised.
PopFailed == reqs /= << >> /\ reqs[1].op = "POST" /\ ~reqs[1].ok

C9_OnlyThePop ==
    PopFailed =>
        /\ Len(reqs) = 1
        /\ cur = 0
        /\ claim_result = "raised"
        /\ work_result = "raised"
        /\ pc = "sleep"

C9_PopStep == (pc = "pop" /\ PopFailed') => UNCHANGED envVars

\* C9: when the pop request raises, _do_work_claim and _do_work raise; the
\* pop is the only request of the invocation (no quarantine PATCH, no File
\* Catalog request, no bulk_create), nothing is claimed and nothing changes
\* in the LTA DB or on disk.
C9_PopFailureRaises == []C9_OnlyThePop /\ [][C9_PopStep]_vars

\* The second pop of a work cycle raised.
C9_Witness == PopFailed /\ claims = 2 /\ work_result = "raised"

\* C10: _do_work stops after the first _do_work_claim that returns False
\* and goes on after one that returns True; a pop that hands out nothing
\* makes _do_work_claim return False with the pop as its only request; and
\* with run_once_and_die set _do_work makes exactly one _do_work_claim,
\* whatever it returns.
C10_DrainLoop ==
    /\ (ClaimEnded /\ claim_result = "False") => (pc = "sleep" /\ work_result = "returned")
    /\ (ClaimEnded /\ claim_result = "True" /\ ~run_once_and_die)
          => (pc = "pop" /\ claims >= 2 /\ work_result = "running")
    /\ (ClaimEnded /\ claim_result = "True" /\ run_once_and_die)
          => (pc = "sleep" /\ work_result = "returned")
    /\ work_result = "returned"
          => (claim_result = "False" \/ (claim_result = "True" /\ run_once_and_die))
    /\ (reqs /= << >> /\ reqs[1].ok /\ cur = 0)
          => (Len(reqs) = 1 /\ claim_result = "False" /\ pc = "sleep")
    /\ run_once_and_die => claims <= 1
    /\ work_result \in {"returned", "raised"} => claims >= 1

\* _do_work made two claims: the first returned True, the second found no
\* work and returned False.
C10_Witness ==
    /\ pc = "sleep"
    /\ claims = 2
    /\ claim_result = "False"
    /\ cur = 0
    /\ ~run_once_and_die

(***************************************************************************)
(* Picker: exceptions while a TransferRequest is claimed.                  *)
(***************************************************************************)
\* A request of the invocation other than the pop and the quarantine PATCH
\* raised.
RequestRaised == \E k \in 2..Len(reqs) : ~reqs[k].ok /\ ~IsQuarantine(reqs[k])

\* All records were fetched and one of them has no file_size.
SizelessRecord ==
    /\ catalog_records /= << >>
    /\ Len(catalog_records) = Len(catalog_files)
    /\ \E i \in DOMAIN catalog_records : "file_size" \notin DOMAIN catalog_records[i]

\* The Picker's emission loop was left before its last bin.
EmissionCutShort ==
    /\ plan /= << >>
    /\ OverfullBins = {}
    /\ emitted < Len(plan)
    /\ pc /= "emit"

\* The texts a failed request may carry, those of the KeyErrors included.
ExceptionTexts == ErrorTexts \cup {KeyErrorText(k) : k \in KEYS}

\* The text of the exception that ended the processing, as far as the
\* state determines it: the KeyError of the key that is missing.
ExpectedCause ==
    IF SizelessRecord THEN {KeyErrorText("file_size")}
    ELSE IF EmissionCutShort /\ ~RequestRaised
    THEN {KeyErrorText(FirstMissingKey(catalog_records[plan[emitted + 1][j]])) :
             j \in {h \in DOMAIN plan[emitted + 1] :
                       ~Projectable(catalog_records[plan[emitted + 1][h]])}}
    ELSE ExceptionTexts

\* C11: in the Picker, once a request made for the claimed TransferRequest
\* has raised, or a fetched record lacks a key the Picker reads, the one
\* PATCH of the invocation is the quarantine of that TransferRequest with
\* the text of the exception as cause, nothing is requested after it,
\* _do_work_claim returns False and _do_work returns: the worker is at its
\* sleep and nothing was raised to the work loop.
C11_PickerExceptionQuarantines ==
    (role = "picker" /\ (RequestRaised \/ SizelessRecord \/ EmissionCutShort)) =>
        /\ pc \in {"quarantine", "sleep"}
        /\ qreason \in ExpectedCause
        /\ pc = "quarantine" => Logged(IsPatch) = << >>
        /\ pc = "sleep" =>
              /\ Len(Logged(IsPatch)) = 1
              /\ IsQuarantine(LastReq)
              /\ LastReq.id = cur
              /\ LastReq.body.reason
                    = QuarantineReason(ComponentName(role), instance_uuid, qreason)
              /\ LastReq.ok => tr[cur].status = "quarantined"
              /\ claim_result = "False"
              /\ work_result = "returned"

\* The second bulk_create of a TransferRequest raised: the first bundle is
\* created, the TransferRequest in quarantine, the worker asleep.
C11_Witness ==
    /\ role = "picker"
    /\ EmissionCutShort /\ RequestRaised
    /\ emitted = 1
    /\ pc = "sleep"
    /\ tr[cur].status = "quarantined"
    /\ claim_result = "False"

(***************************************************************************)
(* Locator: exceptions while a TransferRequest is claimed.                 *)
(***************************************************************************)
\* The Locator's emission loop was left before its last bundle record.
LocatorCutShort ==
    /\ bundle_records /= << >>
    /\ Len(bundle_records) = Len(plan)
    /\ emitted < Len(plan)
    /\ pc /= "emit"

\* C12: in the Locator, once a request made for the claimed
\* TransferRequest has raised, or the bundle record to emit has no lta
\* sub-object, the quarantine PATCH of that TransferRequest is the next
\* and last request of the invocation, with the text of the exception as
\* cause; only after that PATCH has been attempted is the exception out
\* of _do_work_claim and _do_work, and it reaches the work loop.
C12_LocatorQuarantinesThenRaises ==
    (role = "locator" /\ (RequestRaised \/ LocatorCutShort)) =>
        /\ pc \in {"quarantine", "sleep"}
        /\ qreason \in (IF RequestRaised THEN ErrorTexts ELSE {KeyErrorText("lta")})
        /\ pc = "quarantine" =>
              /\ Logged(IsPatch) = << >>
              /\ claim_result /= "raised"
              /\ work_result = "running"
        /\ pc = "sleep" =>
              /\ Len(Logged(IsPatch)) = 1
              /\ IsQuarantine(LastReq)
              /\ LastReq.id = cur
              /\ LastReq.body.reason
                    = QuarantineReason(ComponentName(role), instance_uuid, qreason)
              /\ LastReq.ok => tr[cur].status = "quarantined"
              /\ claim_result = "raised"
              /\ work_result = "raised"

\* A bundle record without lta ended the emission: the TransferRequest is
\* in quarantine and the KeyError has reached the work loop.
C12_Witness ==
    /\ role = "locator"
    /\ LocatorCutShort /\ ~RequestRaised
    /\ pc = "sleep"
    /\ tr[cur].status = "quarantined"
    /\ work_result = "raised"

(***************************************************************************)
(* Stager: one bundle for each work cycle.                                 *)
(***************************************************************************)
IsPop(r) == r.op = "POST" /\ r.url = StagerPopUrl

C13_OneBundle ==
    role = "rucio_stager" =>
        /\ claims <= 1
        /\ claim_result \in {"none", "False", "raised"}
        /\ reqs /= << >> => (IsPop(reqs[1]) /\ Len(Logged(IsPop)) = 1)
        /\ \A k \in DOMAIN reqs : IsPatch(reqs[k]) => (cur /= 0 /\ reqs[k].id = cur)
        /\ (pc = "sleep" /\ work_result = "returned") =>
              /\ claim_result = "False"
              /\ \/ cur = 0 /\ Len(reqs) = 1
                 \/ cur /= 0 /\ moved /\ bundle[cur].status = "staged"
                 \/ cur /= 0 /\ ~moved /\ TookUnclaimBranch /\ bundle[cur].status = "created"

\* A Bundle handed out is measured against what the inbox holds then.
C13_MeasureStep ==
    (role = "rucio_stager" /\ pc /= pc') =>
        /\ (pc = "pop" /\ cur' /= 0) => pc' = "stage"
        /\ pc = "stage" =>
              ((pc' = "unclaim") <=> (InboxSize + bundle[cur].size > dest_quota))

\* C13: every _do_work_claim of the Stager makes one pop, patches no
\* Bundle but the one it was handed and never returns True: it returns
\* False when the Bundle was staged, when it was unclaimed for lack of
\* room and when there was none. So each work cycle makes one
\* _do_work_claim, and every Bundle handed out is measured against the
\* inbox as it is in that cycle.
C13_OneBundlePerCycle == []C13_OneBundle /\ [][C13_MeasureStep]_vars

\* A Bundle refused in the first work cycle was staged in the second,
\* after Rucio had made room.
C13_Witness ==
    /\ role = "rucio_stager"
    /\ cycle = 2
    /\ cur /= 0
    /\ bundle[cur].status = "staged"
    /\ bundle[cur].work_priority_timestamp = 1
    /\ claim_result = "False"

(***************************************************************************)
(* Stager: the move fails.                                                 *)
(***************************************************************************)
\* The outbox has no archive for the claimed Bundle.
ArchiveMissing == PathJoin(BUNDLER_OUTBOX_PATH, BundleName(cur)) \notin DOMAIN files

IsStaged(r) == IsPatch(r) /\ "status" \in DOMAIN r.body /\ r.body.status = "staged"

\* The step of _stage_bundle in which shutil.move raises.
C14_MoveStep ==
    (/\ role = "rucio_stager"
     /\ pc = "stage"
     /\ pc' /= "stage"
     /\ InboxSize + bundle[cur].size <= dest_quota
     /\ ArchiveMissing)
        => /\ pc' = "quarantine"
           /\ qreason' = NoSuchFile
           /\ UNCHANGED <<files, bundle, reqs>>

\* shutil.move raised in this invocation.
MoveFailed == role = "rucio_stager" /\ cur /= 0 /\ qreason = NoSuchFile

C14_AfterMoveFailed ==
    MoveFailed =>
        /\ ~moved /\ ~ArchiveInInbox
        /\ pc \in {"quarantine", "sleep"}
        /\ Logged(IsStaged) = << >>
        /\ pc = "quarantine" => Logged(IsPatch) = << >>
        /\ pc = "sleep" =>
              /\ Len(Logged(IsPatch)) = 1
              /\ IsQuarantine(LastReq)
              /\ LastReq.id = cur
              /\ LastReq.body.reason
                    = QuarantineReason(ComponentName(role), instance_uuid, NoSuchFile)
              /\ bundle[cur].status = IF LastReq.ok THEN "quarantined" ELSE "created"
              /\ claim_result = "raised"
              /\ work_result = "raised"

\* C14: when shutil.move raises (the outbox does not hold the archive),
\* nothing is moved, the next and only PATCH of the invocation is the
\* quarantine of the Bundle with the error text as cause, no PATCH sets
\* status=staged, and the exception reaches the work loop.
C14_MoveFailureQuarantines == [][C14_MoveStep]_vars /\ []C14_AfterMoveFailed

\* The archive was missing: the Bundle is in quarantine and the error has
\* reached the work loop.
C14_Witness ==
    /\ MoveFailed
    /\ pc = "sleep"
    /\ bundle[cur].status = "quarantined"
    /\ work_result = "raised"

(***************************************************************************)
(* Stager: the move and the PATCH that follows it.                         *)
(***************************************************************************)
OutboxPath == PathJoin(BUNDLER_OUTBOX_PATH, BundleName(cur))

InboxPath == PathJoin(RUCIO_INBOX_PATH, BundleName(cur))

\* The step of _stage_bundle that passes the quota test and moves the
\* archive, and no other step of the Stager touches the disk.
C15_MoveStep ==
    (role = "rucio_stager" /\ pc' /= pc) =>
        /\ (/\ pc = "stage"
            /\ InboxSize + bundle[cur].size <= dest_quota
            /\ ~ArchiveMissing)
              => /\ DOMAIN files' = ((DOMAIN files) \ {OutboxPath}) \cup {InboxPath}
                 /\ files'[InboxPath] = files[OutboxPath]
                 /\ \A p \in (DOMAIN files) \ {OutboxPath, InboxPath} : files'[p] = files[p]
                 /\ moved' /\ ~moved
                 /\ pc' = "patch"
                 /\ UNCHANGED <<bundle, reqs>>
        /\ files' /= files => (pc = "stage" /\ pc' = "patch")

C15_StagedPatch ==
    role = "rucio_stager" =>
        /\ Len(Logged(IsStaged)) <= 1
        /\ ~moved => Logged(IsStaged) = << >>
        /\ (moved /\ pc /= "patch") => Len(Logged(IsStaged)) = 1
        /\ \A k \in DOMAIN reqs :
              IsStaged(reqs[k]) =>
                  /\ reqs[k].id = cur
                  /\ DOMAIN reqs[k].body
                        = {"bundle_path", "claimed", "status", "reason", "update_timestamp"}
                  /\ reqs[k].body.bundle_path = InboxPath
                  /\ reqs[k].body.claimed = FALSE
                  /\ reqs[k].body.reason = << >>
                  /\ reqs[k].body.update_timestamp = now
                  /\ reqs[k].ok =>
                        /\ bundle[cur].status = "staged"
                        /\ bundle[cur].bundle_path = InboxPath
                        /\ ~bundle[cur].claimed

\* C15: a Stager call that passes the quota test with the archive in the
\* outbox moves BUNDLER_OUTBOX_PATH/<basename(bundle_path)> to
\* RUCIO_INBOX_PATH/<basename(bundle_path)>, once, and touches no other
\* file; after the move, and never without it, it issues exactly one PATCH
\* with status=staged, whose body is bundle_path (the inbox location),
\* claimed=false, reason="" and the current update_timestamp, and neither
\* size nor checksum.
C15_MoveThenStagedPatch == [][C15_MoveStep]_vars /\ []C15_StagedPatch

\* The archive was moved and the Bundle is staged.
C15_Witness ==
    /\ role = "rucio_stager"
    /\ moved
    /\ pc = "sleep"
    /\ bundle[cur].status = "staged"
    /\ bundle[cur].bundle_path = InboxPath
    /\ InboxPath \in DOMAIN files

(***************************************************************************)
(* A TransferRequest for which the File Catalog has no files.              *)
(***************************************************************************)
IsListing(r) == r.op = "GET" /\ r.url = "/api/files"

IsRecordFetch(r) == r.op = "GET" /\ r.url = "/api/files/<uuid>"

\* The discovery of the invocation is over, every listing was answered and
\* no file came of it.
ZeroFilesListed ==
    /\ role \in {"picker", "locator"}
    /\ Logged(IsListing) /= << >>
    /\ \A k \in DOMAIN reqs : IsListing(reqs[k]) => reqs[k].ok
    /\ catalog_files = << >>
    /\ pc \notin {"list", "page"}

\* C16: when the discovery of a Picker or a Locator ended with zero files in
\* total, the invocation fetches no record and creates no bundle; its one
\* PATCH is the quarantine of the claimed TransferRequest with the cause
\* "File Catalog returned zero files for the TransferRequest", nothing is
\* requested after it and the processing of the TransferRequest ends:
\* _do_work_claim returns True.
C16_ZeroFilesQuarantine ==
    ZeroFilesListed =>
        /\ qreason = ZeroFilesReason
        /\ Logged(IsRecordFetch) = << >>
        /\ Logged(IsBulkCreate) = << >>
        /\ Len(Logged(IsListing)) = 1
        /\ pc = "quarantine" => Logged(IsPatch) = << >>
        /\ pc /= "quarantine" =>
              /\ Len(Logged(IsPatch)) = 1
              /\ IsQuarantine(LastReq)
              /\ LastReq.id = cur
              /\ LastReq.body.reason
                    = QuarantineReason(ComponentName(role), instance_uuid, ZeroFilesReason)
              /\ LastReq.ok => tr[cur].status = "quarantined"
              /\ ClaimEnded
              /\ claim_result = "True"

\* A Picker quarantined a TransferRequest the File Catalog has no files for.
C16_Witness ==
    /\ role = "picker"
    /\ ZeroFilesListed
    /\ ClaimEnded
    /\ tr[cur].status = "quarantined"
    /\ tr[cur].reason = QuarantineReason("picker", instance_uuid, ZeroFilesReason)

(***************************************************************************)
(* The paging of the File Catalog discovery.                               *)
(***************************************************************************)
\* The number of files the File Catalog has from offset start on, limit of
\* them at most.
Available(start, limit) ==
    IF Len(catalog) <= start THEN 0
    ELSE IF Len(catalog) - start < limit THEN Len(catalog) - start
    ELSE limit

\* A step of the discovery is one listing request for the files after those
\* collected so far; a full page leads to another listing, a shorter one
\* out of the paging.
C17_ListingStep ==
    (role \in {"picker", "locator"} /\ pc \in {"list", "page"}) =>
        LET r == reqs'[Len(reqs')]
            returned == Len(catalog_files') - Len(catalog_files)
        IN  /\ Len(reqs') = Len(reqs) + 1
            /\ IsListing(r)
            /\ r.body.limit = FILE_CATALOG_LIMIT
            /\ r.body.start = Len(catalog_files)
            /\ r.ok =>
                  /\ returned = Available(Len(catalog_files), FILE_CATALOG_LIMIT)
                  /\ returned = FILE_CATALOG_LIMIT => pc' = "page"
                  /\ returned < FILE_CATALOG_LIMIT => pc' \in {"fetch", "quarantine"}

\* The paging of the invocation ended with a page that was answered.
PagingEnded ==
    /\ role \in {"picker", "locator"}
    /\ Logged(IsListing) /= << >>
    /\ \A k \in DOMAIN reqs : IsListing(reqs[k]) => reqs[k].ok
    /\ pc \notin {"list", "page"}

\* Between two listings only full pages were collected; after the paging
\* every page but the last was full, the last was short and every file of
\* the File Catalog was collected.
C17_PagesCollected ==
    /\ (role \in {"picker", "locator"} /\ pc = "page") =>
          /\ Len(catalog_files) = Len(Logged(IsListing)) * FILE_CATALOG_LIMIT
          /\ Len(catalog_files) > 0
    /\ PagingEnded =>
          /\ Len(Logged(IsListing)) = (Len(catalog_files) \div FILE_CATALOG_LIMIT) + 1
          /\ catalog_files = [j \in 1..Len(catalog) |-> catalog[j]["uuid"]]

\* C17: in the discovery of Picker and Locator a page of exactly
\* FILE_CATALOG_LIMIT files is always followed by the request for another
\* page, and a page of any smaller length, FILE_CATALOG_LIMIT - 1 and 0
\* included, ends the paging: the paging stops on the first short page and
\* never before it.
C17_PagingStopsOnShortPage == [][C17_ListingStep]_vars /\ []C17_PagesCollected

\* The paging ended on an empty page that followed a full one.
C17_Witness ==
    /\ PagingEnded
    /\ pc = "fetch"
    /\ Len(Logged(IsListing)) = 2
    /\ Len(catalog_files) = FILE_CATALOG_LIMIT

(***************************************************************************)
(* How the processing of a claimed TransferRequest ends.                   *)
(***************************************************************************)
\* One or more Bundles were created for the TransferRequest and it was not
\* quarantined.
OutcomeBundles == EmittedBundles /= << >> /\ tr[cur].status /= "quarantined"

\* The TransferRequest was quarantined with a reason and no Bundle was
\* created for it.
OutcomeQuarantine ==
    /\ tr[cur].status = "quarantined"
    /\ tr[cur].reason /= << >>
    /\ EmittedBundles = << >>

\* C18: the processing of every TransferRequest a Picker or a Locator
\* claimed ends with Bundles created and no quarantine, or with the
\* quarantine and no Bundle created: never with neither, never with both.
C18_ExactlyOneOutcome ==
    (role \in {"picker", "locator"} /\ ClaimEnded /\ cur /= 0) =>
        /\ OutcomeBundles \/ OutcomeQuarantine
        /\ ~(OutcomeBundles /\ OutcomeQuarantine)

\* A Picker's TransferRequest that ended quarantined with a Bundle created.
C18_BundlesAndQuarantine ==
    /\ role = "picker"
    /\ ClaimEnded /\ cur /= 0
    /\ EmittedBundles /= << >>
    /\ tr[cur].status = "quarantined"

(***************************************************************************)
(* Quarantine is the end of an entity for the workers.                     *)
(***************************************************************************)
\* A request that writes to the LTA DB on behalf of a claimed entity.
IsWrite(r) == IsPatch(r) \/ IsBulkCreate(r)

\* The entity a write concerns: the one a PATCH names, the TransferRequest
\* a created bundle belongs to.
Concerns(r) == IF IsBulkCreate(r) THEN r.body.bundles[1].request ELSE r.id

\* Entity i of the kind the component works on is quarantined.
Quarantined(i) ==
    IF role = "rucio_stager"
    THEN bundle[i].status = "quarantined"
    ELSE tr[i].status = "quarantined"

\* An answered quarantine PATCH is the last request of its invocation and
\* the entity is quarantined from then on.
C19_QuarantineIsLast ==
    \A k \in DOMAIN reqs :
        (IsQuarantine(reqs[k]) /\ reqs[k].ok) =>
            /\ k = Len(reqs)
            /\ reqs[k].id = cur
            /\ Quarantined(cur)

\* No step writes for an entity that is quarantined, no pop hands one out
\* and no step changes one.
C19_Step ==
    /\ (Len(reqs') = Len(reqs) + 1 /\ IsWrite(reqs'[Len(reqs')])) =>
          /\ Concerns(reqs'[Len(reqs')]) = cur
          /\ ~Quarantined(cur)
    /\ (pc = "pop" /\ cur' /= 0) => ~Quarantined(cur')
    /\ \A i \in DOMAIN tr : tr[i].status = "quarantined" => tr'[i] = tr[i]
    /\ \A i \in DOMAIN bundle : bundle[i].status = "quarantined" => bundle'[i] = bundle[i]

HappyPath ==
    /\ role = "picker"
    /\ ClaimEnded
    /\ cur /= 0
    /\ \A k \in DOMAIN reqs : reqs[k].ok

\* The bulk_create requests of the invocation.
BulkCreates == Logged(IsBulkCreate)

\* Every bulk_create of the invocation carries one bundle of status
\* specified for the claimed TransferRequest, each of its files projected
\* to the five keys.
WellFormedBulkCreates ==
    \A k \in DOMAIN BulkCreates :
        LET bundles == BulkCreates[k].body.bundles
        IN  /\ Len(bundles) = 1
            /\ bundles[1].status = "specified"
            /\ bundles[1].request = cur
            /\ \A j \in DOMAIN bundles[1].files :
                  /\ DOMAIN bundles[1].files[j] = KEYS
                  /\ Cardinality(DOMAIN bundles[1].files[j]) = 5

\* C20 as stated: in scenario S1 the Picker issues exactly one bulk_create,
\* carrying one bundle whose files list has three five-key entries, with
\* status "specified" and request equal to the uuid of the claimed
\* TransferRequest.
C20_AsStated ==
    HappyPath =>
        /\ Len(BulkCreates) = 1
        /\ WellFormedBulkCreates
        /\ Len(BulkCreates[1].body.bundles[1].files) = 3

\* C20: in scenario S1 the three records sum to 1200 bytes, which one bin
\* of 1000 does not hold: the Picker issues exactly two bulk_create calls,
\* the first carrying one bundle with the files of 500 and 400 bytes, the
\* second one bundle with the file of 300 bytes; each file entry has the
\* five keys, each bundle status "specified" and request equal to the uuid
\* of the claimed TransferRequest, and nothing is quarantined.
C20_TwoBundles ==
    HappyPath =>
        /\ Len(BulkCreates) = 2
        /\ WellFormedBulkCreates
        /\ SizesOf(BulkCreates[1].body.bundles[1]) = <<500, 400>>
        /\ SizesOf(BulkCreates[2].body.bundles[1]) = <<300>>
        /\ Logged(IsPatch) = << >>
        /\ claim_result = "True"
        /\ tr[cur].status = "ethereal"

\* The Picker has emitted the bundles of the scenario.
C20_Witness ==
    /\ HappyPath
    /\ Len(catalog_records) = 3
    /\ Len(EmittedBundles) = 2
    /\ Len(created) = 2

(***************************************************************************)
(* The number of bins of the Picker's packing.                             *)
(***************************************************************************)
\* The summed file_size of the records with the indices in items.
SizeOfItems(items) == SumSeq([j \in DOMAIN items |-> catalog_records[items[j]].file_size])

\* The volume cap of the claimed TransferRequest.
VolumeCap == bundle_size_of(tr[cur].dest)

\* f packs the fetched records into k bins, each within the volume cap or
\* holding a single record.
PacksInto(f, k) ==
    \A b \in 1..k :
        LET items == {i \in DOMAIN f : f[i] = b}
            order == [j \in 1..Len(catalog_records) |-> j]
        IN  \/ Cardinality(items) <= 1
            \/ SizeOfItems(SelectSeq(order, LAMBDA i : i \in items)) <= VolumeCap

\* The fetched records can be packed into k bins.
CanPackInto(k) == \E f \in [DOMAIN catalog_records -> 1..k] : PacksInto(f, k)

\* C21 as stated: the number of bundles the Picker emits is the smallest
\* number of bins the fetched records can be packed into with each bin's
\* summed file_size within bundle_size (an oversized record in a bin of
\* its own).
C21_AsStated ==
    (HappyPath /\ BulkCreates /= << >>) =>
        /\ CanPackInto(Len(BulkCreates))
        /\ ~CanPackInto(Len(BulkCreates) - 1)

\* C21: the Picker's packing is the greedy one of to_constant_volume, which
\* is not always the smallest: every fetched record is in exactly one
\* emitted bundle, every bundle is within bundle_size or holds a single
\* record, and no two bundles would fit into one (their sizes together
\* exceed bundle_size), so that no bundle could be saved by merging two.
C21_GreedyPacking ==
    HappyPath =>
        /\ Len(BulkCreates) = Len(plan)
        /\ \A i \in DOMAIN catalog_records : TimesEmitted(i) = 1
        /\ \A a \in DOMAIN plan :
              /\ plan[a] /= << >>
              /\ SizeOfItems(plan[a]) <= VolumeCap \/ Len(plan[a]) = 1
              /\ SizesOf(EmittedBundles[a])
                    = [j \in DOMAIN plan[a] |-> catalog_records[plan[a][j]].file_size]
              /\ \A b \in DOMAIN plan :
                    a < b => SizeOfItems(plan[a]) + SizeOfItems(plan[b]) > VolumeCap

\* The Picker emitted three bundles for records that two bins hold.
C21_Witness ==
    /\ HappyPath
    /\ tr[cur].dest = PackingSite
    /\ Len(BulkCreates) = 3
    /\ CanPackInto(2)

(***************************************************************************)
(* The bulk_create bodies as a function of what the Picker is given.       *)
(***************************************************************************)
\* The packing of the File Catalog's records for the destination of the
\* claimed TransferRequest.
GivenPlan ==
    to_constant_volume([i \in DOMAIN catalog |-> catalog[i].file_size],
                       bundle_size_of(tr[cur].dest))

\* The body of the k-th bulk_create as the TransferRequest, the File
\* Catalog's records and the bundle_size determine it.
GivenBody(k) ==
    [bundles |-> <<[type |-> "Bundle",
                    status |-> "specified",
                    reason |-> << >>,
                    request |-> cur,
                    source |-> tr[cur].source,
                    dest |-> tr[cur].dest,
                    path |-> tr[cur].path,
                    files |-> [j \in DOMAIN GivenPlan[k] |->
                                  [key \in KEYS |-> catalog[GivenPlan[k][j]][key]]]]>>]

\* Whatever the run (its work cycle, the requests that failed before the
\* claim, whether the worker runs once), the bulk_create bodies of an
\* invocation are the first ones of the sequence the TransferRequest, the
\* catalog and the bundle_size determine, and all of it when the emission
\* loop went through.
SameBodiesForSameInput ==
    (role = "picker" /\ cur /= 0) =>
        /\ \A k \in DOMAIN BulkCreates : BulkCreates[k].body = GivenBody(k)
        /\ PickerEmittedAll => Len(BulkCreates) = Len(GivenPlan)

\* C22 as stated: the bulk_create bodies of the Picker are determined by
\* the TransferRequest, the catalog responses, bundle_size and
\* MAX_FILE_COUNT, and no bundle of the sequence exceeds bundle_size.
C22_AsStated ==
    /\ SameBodiesForSameInput
    /\ role = "picker" =>
          \A k \in DOMAIN BulkCreates :
              SumSeq(SizesOf(BulkCreates[k].body.bundles[1])) <= VolumeCap

\* C22: the bulk_create bodies of the Picker are determined by the
\* TransferRequest, the catalog responses, bundle_size and MAX_FILE_COUNT
\* (same number of bundles, same files in each, same order), and no bundle
\* of the sequence exceeds bundle_size unless it holds a single record that
\* alone exceeds it.
C22_DeterministicEmission ==
    /\ SameBodiesForSameInput
    /\ role = "picker" =>
          \A k \in DOMAIN BulkCreates :
              LET b == BulkCreates[k].body.bundles[1]
              IN  \/ SumSeq(SizesOf(b)) <= VolumeCap
                  \/ Len(b.files) = 1 /\ b.files[1].file_size > VolumeCap

\* Scenario S2 was emitted in its second work cycle: 700 alone, 600 with
\* 400, 500 alone.
C22_Witness ==
    /\ HappyPath
    /\ cycle = 2
    /\ Len(BulkCreates) = 3
    /\ SizesOf(BulkCreates[1].body.bundles[1]) = <<700>>
    /\ SizesOf(BulkCreates[2].body.bundles[1]) = <<600, 400>>
    /\ SizesOf(BulkCreates[3].body.bundles[1]) = <<500>>

(***************************************************************************)
(* The bundles the Picker sends to bulk_create.                            *)
(***************************************************************************)
\* A pop of TransferRequests.
IsTRPop(r) == r.op = "POST" /\ r.url \in {PickerPopUrl, LocatorPopUrl}

\* The TransferRequest the pop of this invocation handed out.
ClaimedHere(i) ==
    /\ IsTRPop(reqs[1]) /\ reqs[1].ok
    /\ i \in DOMAIN tr
    /\ tr[i].claimed
    /\ tr[i].claimant = reqs[1].body.claimant

\* C23: every bulk_create of the Picker carries exactly one bundle, the
\* k-th call the bundle of the k-th bin; the bundle has status "specified",
\* a non-empty files list of five-key projections (checksum, file_size,
\* logical_name, meta_modify_date, uuid) of fetched records, source, dest
\* and path of the claimed TransferRequest and as request the uuid of the
\* TransferRequest claimed in the same invocation.
C23_BundlesWellFormed ==
    role = "picker" =>
        /\ Len(BulkCreates) <= Len(plan)
        /\ PickerEmittedAll => Len(BulkCreates) = Len(plan)
        /\ \A k \in DOMAIN BulkCreates :
              LET bundles == BulkCreates[k].body.bundles
                  b == bundles[1]
              IN  /\ Len(bundles) = 1
                  /\ b.status = "specified"
                  /\ b.files /= << >>
                  /\ Len(b.files) = Len(plan[k])
                  /\ \A j \in DOMAIN b.files :
                        /\ DOMAIN b.files[j]
                              = {"checksum", "file_size", "logical_name",
                                 "meta_modify_date", "uuid"}
                        /\ \A key \in DOMAIN b.files[j] :
                              b.files[j][key] = catalog_records[plan[k][j]][key]
                  /\ ClaimedHere(b.request)
                  /\ b.request = cur
                  /\ b.source = tr[b.request].source
                  /\ b.dest = tr[b.request].dest
                  /\ b.path = tr[b.request].path

\* The Picker sent the bundles of two bins, one call each.
C23_Witness ==
    /\ PickerEmittedAll
    /\ Len(plan) = 2
    /\ Len(BulkCreates) = 2
    /\ \A k \in 1..2 : BulkCreates[k].ok

(***************************************************************************)
(* Locator: which locations contribute, and with which uuid.               *)
(***************************************************************************)
\* The position of the first c in s, one past the end when there is none.
FirstAt(s, c) ==
    IF \E i \in DOMAIN s : s[i] = c
    THEN CHOOSE i \in DOMAIN s : s[i] = c /\ \A h \in 1..(i - 1) : s[h] /= c
    ELSE Len(s) + 1

\* The position of the last c in s, 0 when there is none.
LastAt(s, c) ==
    IF \E i \in DOMAIN s : s[i] = c
    THEN CHOOSE i \in DOMAIN s : s[i] = c /\ \A h \in (i + 1)..Len(s) : s[h] /= c
    ELSE 0

\* The part of basename(path before the first ':') before its first '.'.
ArchiveUuid(path) ==
    LET before == SubSeq(path, 1, FirstAt(path, ":") - 1)
        base == SubSeq(before, LastAt(before, "/") + 1, Len(before))
    IN  SubSeq(base, 1, FirstAt(base, ".") - 1)

\* The uuid of the location at place ij = <<record, location>>.
UuidAt(ij) == ArchiveUuid(catalog_records[ij[1]].locations[ij[2]].path)

\* Place ij comes before place kl in the order of the records and, within
\* a record, of its locations.
Before(ij, kl) == ij[1] < kl[1] \/ (ij[1] = kl[1] /\ ij[2] < kl[2])

\* The Locator has fetched every record of the claimed TransferRequest.
AllFetched ==
    /\ role = "locator"
    /\ cur /= 0
    /\ catalog_records /= << >>
    /\ Len(catalog_records) = Len(catalog_files)

\* C24: the bundle uuids the Locator derives from the fetched records are
\* those of the locations whose archive field is strictly true and whose
\* site is the source of the request; locations without an archive key,
\* with another archive value or at another site contribute nothing. The
\* uuid of a location is the part of basename(path before the first ':')
\* before its first '.'; the list holds each uuid once, in the order in
\* which the uuids are first seen.
C24_UuidExtraction ==
    AllFetched =>
        LET places == Participating(catalog_records, tr[cur].source)
            seen(u) == CHOOSE ij \in places :
                           /\ UuidAt(ij) = u
                           /\ \A kl \in places : UuidAt(kl) = u => ~Before(kl, ij)
        IN  /\ {plan[k] : k \in DOMAIN plan} = {UuidAt(ij) : ij \in places}
            /\ \A a, b \in DOMAIN plan : a < b =>
                  /\ plan[a] /= plan[b]
                  /\ Before(seen(plan[a]), seen(plan[b]))

\* Scenario S5: the Locator derived [DEADBEEF1234, CAFEBABE5678] and
\* emitted the two bundles.
C24_Witness ==
    /\ AllFetched
    /\ LocatorEmittedAll
    /\ Len(catalog_records) = 3
    /\ plan = <<<<"D", "E", "A", "D", "B", "E", "E", "F", "1", "2", "3", "4">>,
               <<"C", "A", "F", "E", "B", "A", "B", "E", "5", "6", "7", "8">>>>
    /\ Len(EmittedBundles) = 2
    /\ \A k \in 1..2 : EmittedBundles[k].status = "located"

(***************************************************************************)
(* The listing requests of the discovery.                                  *)
(***************************************************************************)
\* The listing requests of the invocation, in order.
Listings == Logged(IsListing)

\* The first listing asks for keys=uuid from start 0; the k-th one after it
\* has no keys, the query and the limit of the first, and start k * LIMIT.
C25_ListingsOfTheLog ==
    role \in {"picker", "locator"} =>
        \A n \in DOMAIN Listings :
            LET q == Listings[n].body
            IN  /\ q.limit = FILE_CATALOG_LIMIT
                /\ n = 1 =>
                      /\ DOMAIN q = {"query", "keys", "limit", "start"}
                      /\ q.keys = "uuid"
                      /\ q.start = 0
                /\ n > 1 =>
                      /\ DOMAIN q = {"query", "limit", "start"}
                      /\ q.query = Listings[1].body.query
                      /\ q.start = (n - 1) * FILE_CATALOG_LIMIT

\* A listing request starts at the number of files received so far.
C25_ListingStep ==
    (Len(reqs') = Len(reqs) + 1 /\ IsListing(reqs'[Len(reqs')])) =>
        reqs'[Len(reqs')].body.start = Len(catalog_files)

\* C25: in the discovery of Picker and Locator the first listing request
\* has keys=uuid, start=0 and limit=FILE_CATALOG_LIMIT; every later listing
\* request has no keys, the same query and limit, and as start the number
\* of files received so far, k * FILE_CATALOG_LIMIT for the k-th of them.
C25_PagingRequests == []C25_ListingsOfTheLog /\ [][C25_ListingStep]_vars

\* The Picker made its third follow-up request.
C25_Witness ==
    /\ role = "picker"
    /\ Len(Listings) = 4
    /\ Listings[4].body.start = 3 * FILE_CATALOG_LIMIT
    /\ "keys" \notin DOMAIN Listings[4].body
    /\ Listings[4].ok

(***************************************************************************)
(* What the paging loop collects from a File Catalog that does not change. *)
(***************************************************************************)
\* The number of requests the paging of the N files of the catalog takes.
PagesNeeded == (Len(catalog) \div FILE_CATALOG_LIMIT) + 1

\* C26: the File Catalog of the model holds N matching files throughout and
\* honours start and limit. The paging loop never makes more than
\* floor(N / LIMIT) + 1 listing requests and is left when that many were
\* answered, not before; it has then collected the uuid of every matching
\* file exactly once, also when N is a multiple of LIMIT and the last page
\* is empty.
C26_PagingCollectsAll ==
    role \in {"picker", "locator"} =>
        /\ Len(Listings) <= PagesNeeded
        /\ pc \in {"list", "page"} => Len(Listings) < PagesNeeded
        /\ PagingEnded =>
              /\ Len(Listings) = PagesNeeded
              /\ Len(catalog_files) = Len(catalog)
              /\ \A i \in DOMAIN catalog :
                    Cardinality({j \in DOMAIN catalog_files :
                                    catalog_files[j] = catalog[i]["uuid"]}) = 1

\* Four files in pages of two: the third listing came back empty.
C26_Witness ==
    /\ PagingEnded
    /\ Len(catalog) = 2 * FILE_CATALOG_LIMIT
    /\ Len(Listings) = 3
    /\ Len(catalog_files) = Len(catalog)
    /\ pc = "fetch"

(***************************************************************************)
(* The order of the side effects of an invocation.                         *)
(***************************************************************************)
\* The place of a request in the program order claim, discovery, fetch,
\* emit; a PATCH comes last.
Rank(r) ==
    CASE r.op = "POST" /\ ~IsBulkCreate(r) -> 0
      [] IsListing(r) -> 1
      [] IsRecordFetch(r) -> 2
      [] IsBulkCreate(r) -> 3
      [] OTHER -> 4

\* The log of an invocation starts with its one pop, which was answered
\* when anything follows it, and the requests follow the program order.
C27_LogInOrder ==
    reqs /= << >> =>
        /\ Rank(reqs[1]) = 0
        /\ Len(reqs) > 1 => reqs[1].ok
        /\ \A j \in 2..Len(reqs) :
              /\ Rank(reqs[j]) /= 0
              /\ Rank(reqs[j - 1]) <= Rank(reqs[j])

\* Records are fetched only when the paging is over; bundles are created
\* only when every record was fetched and, in the Picker, no bin of the
\* packing holds more than MAX_FILE_COUNT records.
C27_PhasesComplete ==
    role \in {"picker", "locator"} =>
        /\ Logged(IsRecordFetch) /= << >> =>
              /\ \A k \in DOMAIN Listings : Listings[k].ok
              /\ Len(Listings) = PagesNeeded
        /\ BulkCreates /= << >> =>
              /\ Len(catalog_records) = Len(catalog)
              /\ plan /= << >>
              /\ role = "picker" => OverfullBins = {}
              /\ role = "locator" => Len(bundle_records) = Len(plan)

\* In the Stager the archive is moved in the step that measured the inbox,
\* after the pop and before any PATCH, and the status=staged PATCH is sent
\* after the move.
C27_StagerStep ==
    role = "rucio_stager" =>
        /\ (moved' /\ ~moved) =>
              /\ pc = "stage"
              /\ Len(reqs) = 1 /\ reqs[1].ok /\ reqs' = reqs
              /\ ~OverQuota(InboxSize, bundle[cur].size)
        /\ (Len(reqs') = Len(reqs) + 1 /\ IsStaged(reqs'[Len(reqs')])) => moved

\* C27: within one invocation the side effects occur in program order. The
\* pop precedes every other request; all listings precede the first record
\* fetch; every record fetch precedes the first bulk_create; the Picker
\* has checked every bin against MAX_FILE_COUNT before it creates a bundle.
\* In the Stager the pop precedes the measurement of the inbox, which
\* precedes the move, which precedes the PATCH.
C27_ProgramOrder == []C27_LogInOrder /\ []C27_PhasesComplete /\ [][C27_StagerStep]_vars

\* A Locator went through all phases: pop, two listings, two file records,
\* two bundle records, two bulk_creates.
C27_Witness ==
    /\ role = "locator"
    /\ ClaimEnded
    /\ Len(Listings) = 2
    /\ Len(Logged(IsRecordFetch)) = 4
    /\ Len(BulkCreates) = 2
    /\ \A k \in DOMAIN reqs : reqs[k].ok


(***************************************************************************)
(* C28: suspension points.                                                 *)
(***************************************************************************)
\* The worker is about to make a request to the LTA DB or the File Catalog.
AtRequest == pc \in AwaitPoints \ {"sleep"}

\* The Stager holds a claimed Bundle and is about to measure the inbox and
\* to move the archive.
AtFileSystem == role = "rucio_stager" /\ pc = "stage"

\* C28, as the specification states it: the heartbeat loop can be scheduled
\* at every LTA DB and File Catalog request of the worker and, in the
\* Stager, at the inbox measurement and at the move of the archive.
C28_AsStated == (AtRequest \/ AtFileSystem) => ENABLED StatusLoop

\* C28, what the code does: the Stager has popped a Bundle and is about to
\* measure the inbox and move the archive, and no heartbeat can run before
\* the move is made; the status document the LTA DB holds is older than the
\* work cycle or absent.
C28_BlockedAtFileSystem ==
    /\ AtFileSystem
    /\ ~ ENABLED StatusLoop
    /\ ~ OverQuota(_get_files_and_size(RUCIO_INBOX_PATH), bundle[cur]["size"])
    /\ status.last_work_begin_timestamp < last_work_begin_timestamp


(***************************************************************************)
(* C29: a Bundle refused for the quota is staged once there is room.       *)
(***************************************************************************)
\* Bundle b was refused for the quota: an unclaim PATCH was answered for it
\* and it kept its status.
Refused(b) == bundle[b].status = "created" /\ bundle[b].work_priority_timestamp > 0

\* The Stager holds Bundle b again after a refusal, and what the inbox holds
\* now leaves room for it.
ReexaminedWithRoom(b) ==
    /\ role = "rucio_stager"
    /\ pc = "stage"
    /\ cur = b
    /\ Refused(b)
    /\ InboxSize + bundle[b].size <= dest_quota

\* Bundle b is registered as staged in the inbox.
Staged(b) ==
    /\ bundle[b].status = "staged"
    /\ bundle[b].bundle_path = PathJoin(RUCIO_INBOX_PATH, BundleName(b))

\* The PATCH that sets Bundle b to staged raised.
StagedPatchRaised(b) ==
    cur = b /\ \E k \in DOMAIN reqs : IsStaged(reqs[k]) /\ ~reqs[k].ok

\* The step in which the unclaim PATCH is answered leaves the Bundle in
\* status created and unclaimed, for the pop to hand out again.
C29_RefusalStep ==
    (/\ role = "rucio_stager"
     /\ pc = "unclaim"
     /\ Len(reqs') = Len(reqs) + 1
     /\ LastReq'.ok)
        => /\ bundle'[cur].status = "created"
           /\ bundle'[cur].claimed = FALSE
           /\ cur \in PoppableBundles'
           /\ Refused(cur)'
           /\ files' = files

Oversized(b) == bundle[b].size > dest_quota

\* The archive of Bundle b is in the inbox.
InInbox(b) == PathJoin(RUCIO_INBOX_PATH, BundleName(b)) \in DOMAIN files

\* The unclaim PATCH of this invocation raised.
UnclaimRaised == \E k \in DOMAIN reqs : IsUnclaim(reqs[k]) /\ ~reqs[k].ok

\* An oversized Bundle is never staged nor moved, and it is in quarantine
\* only when its unclaim PATCH raised.
C30_NeverStaged ==
    role = "rucio_stager" =>
        \A b \in DOMAIN bundle :
            Oversized(b) =>
                /\ bundle[b].status \in {"created", "quarantined"}
                /\ ~InInbox(b)
                /\ (cur = b /\ pc \notin {"pop", "sleep"}) => ~moved
                /\ cur = b => Logged(IsStaged) = << >>

\* The steps of an invocation that holds an oversized Bundle: the quota
\* test refuses it whatever the inbox holds, the answered unclaim PATCH
\* hands it back with fresh timestamps, and only a raised unclaim PATCH
\* leads to the quarantine.
C30_RefusalStep ==
    (role = "rucio_stager" /\ cur /= 0 /\ cur' = cur /\ Oversized(cur)) =>
        /\ (pc = "stage" /\ pc' /= pc) =>
              /\ pc' = "unclaim"
              /\ files' = files /\ bundle' = bundle
        /\ (pc = "unclaim" /\ pc' /= pc /\ LastReq'.ok) =>
              /\ bundle'[cur].status = "created"
              /\ bundle'[cur].claimed = FALSE
              /\ bundle'[cur].update_timestamp = now
              /\ bundle'[cur].work_priority_timestamp = now
              /\ cur \in PoppableBundles'
              /\ pc' = "sleep"
        /\ (pc' = "quarantine" /\ pc /= pc') => (pc = "unclaim" /\ UnclaimRaised')
        /\ (bundle[cur].status /= "quarantined" /\ bundle'[cur].status = "quarantined")
              => (pc = "quarantine" /\ UnclaimRaised)

CutShort ==
    /\ role \in {"picker", "locator"}
    /\ IF role = "picker" THEN EmissionCutShort ELSE LocatorCutShort

\* The Bundles the LTA DB holds for the claimed TransferRequest.
CreatedFor(i) == SelectSeq(created, LAMBDA b : b.request = i)

\* After the failure of bundle number emitted + 1 the LTA DB holds exactly
\* the bundles created before it, the log holds no bulk_create after the
\* failed one, and the one PATCH of the invocation is the quarantine of the
\* TransferRequest.
C31_PartialEmission ==
    CutShort =>
        LET tries == Logged(IsBulkCreate)
        IN  /\ Len(EmittedBundles) = emitted
            /\ CreatedFor(cur) = EmittedBundles
            /\ Len(tries) \in {emitted, emitted + 1}
            /\ \A k \in DOMAIN tries : tries[k].ok <=> k <= emitted
            /\ Len(tries) = emitted + 1 =>
                  tries[emitted + 1].body.bundles[1] \notin {created[k] : k \in DOMAIN created}
            /\ pc \in {"quarantine", "sleep"}
            /\ pc = "quarantine" => Logged(IsPatch) = << >>
            /\ pc = "sleep" =>
                  /\ Len(Logged(IsPatch)) = 1
                  /\ IsQuarantine(LastReq)
                  /\ LastReq.id = cur
                  /\ LastReq.ok => tr[cur].status = "quarantined"

\* No step of a worker takes a Bundle out of the LTA DB.
C31_Step ==
    /\ Len(created') >= Len(created)
    /\ SubSeq(created', 1, Len(created)) = created

\* C31: when building or creating the i-th bundle of a TransferRequest
\* fails in the Picker or the Locator, exactly the i-1 bundles created
\* before it remain in the LTA DB, no later bundle is attempted, and the
\* TransferRequest is sent to quarantine exactly once.
C31_NoRollback == []C31_PartialEmission /\ [][C31_Step]_vars

\* The second bundle of a TransferRequest failed: the first one is in the
\* LTA DB and the TransferRequest is in quarantine.
C31_Witness ==
    /\ CutShort
    /\ emitted >= 1
    /\ pc = "sleep"
    /\ Len(CreatedFor(cur)) = emitted
    /\ tr[cur].status = "quarantined"


(***************************************************************************)
(* C32: the staged PATCH fails after the move.                             *)
(***************************************************************************)
\* The files of the outbox.
Outbox == {p \in DOMAIN files : Under(p, BUNDLER_OUTBOX_PATH)}

\* The PATCH that sets the claimed Bundle to staged raised.
StagedPatchFailed == role = "rucio_stager" /\ cur /= 0 /\ StagedPatchRaised(cur)

\* After the failed PATCH the archive has left the outbox, the Bundle is
\* not staged and still records its path in the outbox, and the invocation
\* ends with the quarantine PATCH and the exception raised again.
C32_AfterFailedPatch ==
    StagedPatchFailed =>
        /\ moved
        /\ OutboxPath \notin DOMAIN files
        /\ bundle[cur].status /= "staged"
        /\ bundle[cur].bundle_path = OutboxPath
        /\ pc \in {"quarantine", "sleep"}
        /\ pc = "quarantine" => (Len(Logged(IsPatch)) = 1 /\ bundle[cur].status = "created")
        /\ pc = "sleep" =>
              /\ Len(Logged(IsPatch)) = 2
              /\ IsQuarantine(LastReq)
              /\ LastReq.id = cur
              /\ bundle[cur].status = IF LastReq.ok THEN "quarantined" ELSE "created"
              /\ claim_result = "raised"
              /\ work_result = "raised"

\* No step puts a file into the outbox, and after the failed PATCH no step
\* of the worker touches the disk: the archive leaves the inbox only when
\* Rucio takes it.
C32_Step ==
    /\ Outbox' \subseteq Outbox
    /\ (StagedPatchFailed /\ pc' /= pc) => files' = files
    /\ (StagedPatchFailed' /\ ~StagedPatchFailed) =>
          /\ files' = files
          /\ InboxPath \in DOMAIN files => InboxSize >= files[InboxPath]

\* C32: in the Stager, when the move succeeds and the PATCH that sets
\* status=staged fails, the Bundle is sent to quarantine and the exception
\* is raised again while the archive is not moved back: it stays in the
\* inbox, where it counts toward rucio_size, although the Bundle is not
\* staged and its bundle_path still names the outbox.
C32_MovedNotStaged == []C32_AfterFailedPatch /\ [][C32_Step]_vars

\* The staged PATCH failed: the Bundle is in quarantine with its old
\* bundle_path, and its archive fills the inbox.
C32_Witness ==
    /\ StagedPatchFailed
    /\ pc = "sleep"
    /\ bundle[cur].status = "quarantined"
    /\ bundle[cur].bundle_path = OutboxPath
    /\ InboxPath \in DOMAIN files
    /\ InboxSize >= bundle[cur].size


(***************************************************************************)
(* C33: a quarantine for a data condition does not stop the drain.         *)
(***************************************************************************)
\* The claimed TransferRequest goes to quarantine for a condition found
\* without an exception: no files in the File Catalog, or in the Picker a
\* bin above max_file_count.
DataCondition ==
    /\ role \in {"picker", "locator"}
    /\ cur /= 0
    /\ ZeroFilesListed \/ (role = "picker" /\ OverfullBins /= {})

\* The processing of the claimed TransferRequest was ended by an exception.
ExceptionPath ==
    /\ role \in {"picker", "locator"}
    /\ cur /= 0
    /\ RequestRaised \/ CutShort \/ (role = "picker" /\ SizelessRecord)

\* The quarantine primitive has returned to its caller.
QuarantineDone == pc /= "quarantine" /\ Logged(IsQuarantine) /= << >>

\* C33, as the specification states it: after a quarantine for a data
\* condition _do_work_claim returns True and the drain loop goes on to the
\* next pop of the same work cycle.
C33_AsStated ==
    (DataCondition /\ QuarantineDone) =>
        /\ claim_result = "True"
        /\ pc = "pop"
        /\ work_result = "running"

\* C33: after a quarantine for a data condition _do_work_claim returns
\* True, and the drain loop goes on to the next pop of the same work cycle
\* unless run_once_and_die is set, which ends the cycle; after the
\* quarantine for an exception the drain stops, the Picker returning False
\* and the Locator raising.
C33_DataQuarantineDrainsOn ==
    /\ (DataCondition /\ QuarantineDone) =>
          /\ claim_result = "True"
          /\ IF run_once_and_die
             THEN pc = "sleep" /\ work_result = "returned" /\ claims = 1
             ELSE pc = "pop" /\ work_result = "running" /\ claims >= 2
          /\ last_work_begin_timestamp = cycle
    /\ (ExceptionPath /\ QuarantineDone) =>
          /\ pc = "sleep"
          /\ claim_result = (IF role = "picker" THEN "False" ELSE "raised")
          /\ work_result = (IF role = "picker" THEN "returned" ELSE "raised")
    /\ ~(DataCondition /\ ExceptionPath)

\* The drain went on after a quarantine without Bundles: the second pop of
\* the same work cycle found nothing more to do.
C33_Witness ==
    /\ role \in {"picker", "locator"}
    /\ cycle = 1
    /\ claims = 2
    /\ pc = "sleep"
    /\ cur = 0
    /\ created = << >>
    /\ \E i \in DOMAIN tr : tr[i].status = "quarantined"


(***************************************************************************)
(* C34: a Locator whose records name no archive at the source.             *)
(***************************************************************************)
\* Every file of the discovery was fetched, there is at least one, and no
\* record has a location with archive True at the source site.
NothingToLocate ==
    /\ role = "locator"
    /\ cur /= 0
    /\ catalog_records /= << >>
    /\ Len(catalog_records) = Len(catalog_files)
    /\ Participating(catalog_records, TRObject(cur)["source"]) = {}

\* C34: when the Locator's discovery returned at least one file and no
\* fetched record has a participating location, the invocation fetches no
\* bundle record, creates no bundle and issues no PATCH; the
\* TransferRequest is left as the pop left it and _do_work_claim returns
\* True.
C34_NothingLocated ==
    NothingToLocate =>
        /\ Len(Logged(IsRecordFetch)) = Len(catalog_files)
        /\ \A k \in DOMAIN reqs : IsRecordFetch(reqs[k]) =>
              (reqs[k].ok /\ \E f \in DOMAIN catalog_files : catalog_files[f] = reqs[k].id)
        /\ bundle_records = << >>
        /\ Logged(IsBulkCreate) = << >>
        /\ Logged(IsPatch) = << >>
        /\ IsRecordFetch(LastReq)
        /\ CreatedFor(cur) = << >>
        /\ tr[cur].status = "ethereal" /\ tr[cur].claimed
        /\ ClaimEnded
        /\ claim_result = "True"
        /\ work_result = (IF run_once_and_die THEN "returned" ELSE "running")

\* The Locator fetched records none of which names an archive at the
\* source, and went on to its next pop.
C34_Witness ==
    /\ NothingToLocate
    /\ \E i \in DOMAIN catalog_records : catalog_records[i].locations /= << >>
    /\ pc = "pop"
    /\ claim_result = "True"


(***************************************************************************)
(* C35: several instances of one component.                                *)
(***************************************************************************)
\* Instance w is processing the entity its pop handed out.
InClaim(w) == w.cur /= 0 /\ w.pc \notin {"pop", "sleep"}

\* The claimant the running instance names in its pop.
Me == Claimant(ComponentName(role), instance_uuid)

\* No entity is in the hands of two instances; a TransferRequest is handed
\* out once, its Bundles are those its one invocation emitted; a Bundle in
\* the hands of a Stager is claimed by it and not yet staged.
C35_OneClaimant ==
    /\ (InClaim(Running) /\ InClaim(parked)) => cur /= parked.cur
    /\ role \in {"picker", "locator"} =>
          /\ (cur /= 0 /\ parked.cur /= 0) => cur /= parked.cur
          /\ cur /= 0 =>
                /\ tr[cur].claimed
                /\ tr[cur].claimant = Me
                /\ CreatedFor(cur) = EmittedBundles
          /\ \A k \in DOMAIN created : tr[created[k].request].claimed
    /\ (role = "rucio_stager" /\ InClaim(Running)) =>
          /\ bundle[cur].claimed
          /\ bundle[cur].claimant = Me
          /\ bundle[cur].status = "created"

\* A claimed TransferRequest keeps its claimant; a Bundle is created only
\* by the invocation that holds its TransferRequest; an archive is moved
\* only out of the outbox, by the instance that holds its Bundle, and none
\* comes back; a Bundle becomes staged only by the instance that moved it
\* and is not written again.
C35_Step ==
    /\ \A i \in DOMAIN tr :
          tr[i].claimed => (tr'[i].claimed /\ tr'[i].claimant = tr[i].claimant)
    /\ created' /= created =>
          /\ InClaim(Running) /\ cur' = cur
          /\ Len(created') = Len(created) + 1
          /\ SubSeq(created', 1, Len(created)) = created
          /\ created'[Len(created')].request = cur
    /\ Outbox' \subseteq Outbox
    /\ (role = "rucio_stager" /\ files' /= files /\ pc' /= pc) =>
          /\ pc = "stage" /\ cur' = cur
          /\ OutboxPath \in DOMAIN files
          /\ OutboxPath \notin DOMAIN files'
          /\ bundle[cur].claimant = Me
          /\ bundle[cur].status = "created"
    /\ \A b \in DOMAIN bundle :
          /\ bundle[b].status = "staged" => bundle'[b] = bundle[b]
          /\ (bundle[b].status /= "staged" /\ bundle'[b].status = "staged") =>
                /\ b = cur /\ moved /\ pc = "patch"
                /\ bundle[b].claimant = Me

\* C35: with two instances of one component at work against an LTA DB
\* whose pop hands each entity to one claimant, every TransferRequest is
\* processed by one instance, in one invocation that emits all the Bundles
\* carrying its uuid, and every Bundle is moved and set to staged at most
\* once.
C35_AtMostOneClaimant == []C35_OneClaimant /\ [][C35_Step]_vars

\* Two Pickers are at work at the same time, each on its own
\* TransferRequest, and each has created a Bundle.
C35_Witness ==
    /\ role = "picker"
    /\ InClaim(Running) /\ InClaim(parked)
    /\ cur /= parked.cur
    /\ emitted >= 1 /\ parked.emitted >= 1
    /\ \A i \in DOMAIN tr : CreatedFor(i) /= << >>


\* ---------------------------------------------------------------------
\* The drain of the Picker and of the Locator, under fair scheduling:
\* no TransferRequest arrives after Init, every request is answered (by
\* a response or by an error), and the event loop runs the component
\* whenever it can take a step.  The catalog holds at most one file so
\* that the three ways a claim can end (work done, data quarantine,
\* exception) all occur while the graph stays small; the scenarios with
\* two TransferRequests make the drain go round more than once.
DrainInit ==
    /\ InitConfig
    /\ \/ InitPicker /\ max_file_count = MaxFileCount /\ Len(catalog) <= 1
       \/ InitLocator /\ Len(catalog) <= 1
       \/ InitPickerPair
       \/ InitLocatorPair

DrainStep == WorkLoopRun \/ PickerNext \/ LocatorNext

SpecDrainFair == DrainInit /\ [][DrainStep]_vars /\ WF_vars(DrainStep)

\* The TransferRequest the running do_work_claim holds: 1 from the
\* answer to its pop until it returns, 0 otherwise.
Held == IF pc \notin {"pop", "sleep"} /\ cur /= 0 THEN 1 ELSE 0

\* What the running do_work can still spend: the claims it has begun,
\* the TransferRequests pop can still hand out, and the one it holds.
\* do_work starts with claims = 1 and nothing held, so this starts at
\* (number of poppable TransferRequests + 1).
DrainBudget == claims + Cardinality(PoppableTRs) + Held

C36_Bounded ==
    /\ work_result = "running" => claims >= 1
    /\ DrainBudget <= Len(tr) + 1
    /\ claims <= Cardinality({i \in DOMAIN tr : tr[i].claimed}) + 1

C36_Step ==
    /\ PoppableTRs' \subseteq PoppableTRs
    /\ cycle' /= cycle => claims' = 1 /\ Held' = 0
    /\ cycle' = cycle => DrainBudget' <= DrainBudget
    /\ claims' > claims /\ cycle' = cycle =>
          /\ claims' = claims + 1
          /\ Held = 1 /\ tr[cur].claimed /\ cur \notin PoppableTRs'

C36_Terminates == (work_result = "running") ~> (work_result /= "running")

\* C36: with no new TransferRequests and every request answered, each
\* do_work of the Picker and of the Locator terminates; a do_work_claim
\* that returns true has consumed one TransferRequest that pop never
\* hands out again, so a do_work makes at most (number of poppable
\* TransferRequests at its start + 1) claims.
C36_DrainTerminates == []C36_Bounded /\ [][C36_Step]_vars /\ C36_Terminates

\* A do_work that found two TransferRequests, consumed both in two claims
\* that returned true, found nothing at its third claim and returned.
C36_Witness ==
    /\ work_result = "returned"
    /\ cycle = 1
    /\ Len(tr) = 2
    /\ claims = Len(tr) + 1
    /\ claim_result = "False"
    /\ PoppableTRs = {}
    /\ \A i \in DOMAIN tr : tr[i].claimed

=============================================================================
